---- MODULE Spec2Model ----
(***************************************************************************)
(* Verification model of the sex-equity-clinical-trials scripts:           *)
(*   scripts/convert_to_jama_format.py  (manuscript formatter)             *)
(*   scripts/starter.py                 (data analysis pipeline)           *)
(*                                                                         *)
(* A Python str is modelled as a sequence of one-character strings, so     *)
(* that regular expressions, str.strip, str.split and str.upper are        *)
(* computed character by character as the interpreter computes them.       *)
(***************************************************************************)
EXTENDS Integers, Sequences, FiniteSets, TLC

(***************************************************************************)
(* Bounds of the model                                                     *)
(***************************************************************************)
\* number of fragments concatenated into one manuscript of printable text
MaxFrags == 3
\* number of fragments concatenated into one manuscript of the fault runs
MaxFaultFrags == 2
\* number of trials in the cleaned dataset
MaxTrials == 3
\* number of rows of the dataset handed to fetch_eligibility_data
MaxRows == 3
\* largest n_trials handed to fetch_eligibility_data
MaxNTrials == 2
\* number of fragments concatenated into one Conditions value
MaxWords == 2
\* number of rows of a CSV file
MaxRecords == 3
\* number of calls of the categorisation functions
MaxCalls == 3
\* number of fragments of a text that is split several times
MaxSplitFrags == 2
\* number of calls of split_into_sections on one text
MaxSplits == 2

\* the file operations that fail in one run of create_jama_forms
MaxFormFaults == 1
\* number of lines of a markdown table file
MaxTableLines == 3

(***************************************************************************)
(* str primitives                                                          *)
(***************************************************************************)
\* the characters of the model's alphabet that Python's \s and str.strip()
\* treat as whitespace
Whitespace == {" ", "\n", "\t", "\f"}

\* the literal lit occurs in s at index i
StartsAt(s, i, lit) ==
    /\ i >= 1
    /\ i + Len(lit) - 1 <= Len(s)
    /\ \A j \in 1..Len(lit) : s[i + j - 1] = lit[j]

\* least index >= i at which lit occurs in s, 0 when there is none
RECURSIVE Find(_, _, _)
Find(s, lit, i) ==
    IF i + Len(lit) - 1 > Len(s) THEN 0
    ELSE IF StartsAt(s, i, lit) THEN i
    ELSE Find(s, lit, i + 1)

\* regex \s* (greedy) from i: the index of the first character it leaves
RECURSIVE SkipWs(_, _)
SkipWs(s, i) ==
    IF i <= Len(s) /\ s[i] \in Whitespace THEN SkipWs(s, i + 1) ELSE i

RECURSIVE RSkipWs(_, _)
RSkipWs(s, i) ==
    IF i >= 1 /\ s[i] \in Whitespace THEN RSkipWs(s, i - 1) ELSE i

\* str.strip()
strip(s) == SubSeq(s, SkipWs(s, 1), RSkipWs(s, Len(s)))

\* str.split(sep) for a non-empty separator: the pieces between occurrences
RECURSIVE split(_, _)
split(s, sep) ==
    LET i == Find(s, sep, 1)
    IN  IF i = 0 THEN <<s>>
        ELSE <<SubSeq(s, 1, i - 1)>> \o split(SubSeq(s, i + Len(sep), Len(s)), sep)

\* concatenation of the strings ss[i], ss[i+1], ...
RECURSIVE ConcatFrom(_, _)
ConcatFrom(ss, i) ==
    IF i > Len(ss) THEN <<>> ELSE ss[i] \o ConcatFrom(ss, i + 1)

Concat(ss) == ConcatFrom(ss, 1)

(***************************************************************************)
(* convert_to_jama_format.py: clean_markdown, count_words                  *)
(***************************************************************************)
Digits == {"0", "1", "2", "3", "4", "5", "6", "7", "8", "9"}

\* a lazy (.*?) without re.DOTALL followed by the literal d: the least index
\* >= i at which d occurs with no "\n" before it, 0 when there is none
RECURSIVE FindOnLine(_, _, _)
FindOnLine(s, d, i) ==
    IF i + Len(d) - 1 > Len(s) THEN 0
    ELSE IF StartsAt(s, i, d) THEN i
    ELSE IF s[i] = "\n" THEN 0
    ELSE FindOnLine(s, d, i + 1)

\* re.sub(d (.*?) d, \1, s) for the emphasis marker d, scanning from p
RECURSIVE SubEmphasis(_, _, _)
SubEmphasis(s, d, p) ==
    IF p > Len(s) THEN <<>>
    ELSE LET l == IF StartsAt(s, p, d) THEN FindOnLine(s, d, p + Len(d)) ELSE 0
         IN  IF l # 0
             THEN SubSeq(s, p + Len(d), l - 1) \o SubEmphasis(s, d, l + Len(d))
             ELSE <<s[p]>> \o SubEmphasis(s, d, p + 1)

\* \[(.*?)\]\(.*?\) tried at the "[" at p: the lazy group 1 ends at the first
\* "]" on the line that is followed by "(" and a ")" on that line.
\* <<index of "]", index of ")">>, or <<0, 0>>
RECURSIVE LinkAt(_, _)
LinkAt(s, i) ==
    IF i > Len(s) \/ s[i] = "\n" THEN <<0, 0>>
    ELSE LET r == IF s[i] = "]" /\ StartsAt(s, i + 1, <<"(">>)
                  THEN FindOnLine(s, <<")">>, i + 2) ELSE 0
         IN  IF r # 0 THEN <<i, r>> ELSE LinkAt(s, i + 1)

\* re.sub(r'\[(.*?)\]\(.*?\)', r'\1', s), scanning from p
RECURSIVE SubLinks(_, _)
SubLinks(s, p) ==
    IF p > Len(s) THEN <<>>
    ELSE LET m == IF s[p] = "[" THEN LinkAt(s, p + 1) ELSE <<0, 0>>
         IN  IF m[1] # 0
             THEN SubSeq(s, p + 1, m[1] - 1) \o SubLinks(s, m[2] + 1)
             ELSE <<s[p]>> \o SubLinks(s, p + 1)

\* \d+ (greedy) from i: the index of the first character it leaves
RECURSIVE SkipDigits(_, _)
SkipDigits(s, i) ==
    IF i <= Len(s) /\ s[i] \in Digits THEN SkipDigits(s, i + 1) ELSE i

\* re.sub(r'\^(\d+)\^', r'\1', s), scanning from p
RECURSIVE SubSuperscripts(_, _)
SubSuperscripts(s, p) ==
    IF p > Len(s) THEN <<>>
    ELSE LET e == SkipDigits(s, p + 1)
         IN  IF s[p] = "^" /\ e > p + 1 /\ StartsAt(s, e, <<"^">>)
             THEN SubSeq(s, p + 1, e - 1) \o SubSuperscripts(s, e + 1)
             ELSE <<s[p]>> \o SubSuperscripts(s, p + 1)

IsNotBackslash(c) == c # "\\"

clean_markdown(text) ==
    LET t1 == SubEmphasis(text, <<"*","*">>, 1)     \* bold markers
        t2 == SubEmphasis(t1, <<"*">>, 1)        \* italic markers
        t3 == SubLinks(t2, 1)                  \* reference links
        t4 == SubSuperscripts(t3, 1)           \* superscript notation
    IN  SelectSeq(t4, IsNotBackslash)          \* text.replace('\\', '')

\* len(re.findall(r'\S+', s)): the maximal runs of non-whitespace from p
RECURSIVE CountRuns(_, _)
CountRuns(s, p) ==
    IF p > Len(s) THEN 0
    ELSE IF s[p] \in Whitespace THEN CountRuns(s, p + 1)
    ELSE IF p = Len(s) \/ s[p + 1] \in Whitespace THEN 1 + CountRuns(s, p + 1)
    ELSE CountRuns(s, p + 1)

count_words(text) == CountRuns(clean_markdown(text), 1)

(***************************************************************************)
(* convert_to_jama_format.py: split_into_sections                          *)
(***************************************************************************)
\* the heading literals of section_patterns; a pattern is
\*    <heading>\s*\n(.*?)(?=\n##|\Z)      searched with re.DOTALL
\* and (?:Background|Introduction) gives the introduction two alternatives
section_patterns ==
    [ title_page    |-> << <<"#","#"," ","T","i","t","l","e"," ","P","a","g","e">> >>,
      abstract      |-> << <<"#","#"," ","A","b","s","t","r","a","c","t">> >>,
      introduction  |-> << <<"#","#"," ","B","a","c","k","g","r","o","u","n","d">>, <<"#","#"," ","I","n","t","r","o","d","u","c","t","i","o","n">> >>,
      methods       |-> << <<"#","#"," ","M","e","t","h","o","d","s">> >>,
      results       |-> << <<"#","#"," ","R","e","s","u","l","t","s">> >>,
      discussion    |-> << <<"#","#"," ","D","i","s","c","u","s","s","i","o","n">> >>,
      conclusion    |-> << <<"#","#"," ","C","o","n","c","l","u","s","i","o","n","s">> >>,
      abbreviations |-> << <<"#","#"," ","L","i","s","t"," ","o","f"," ","a","b","b","r","e","v","i","a","t","i","o","n","s">> >>,
      declarations  |-> << <<"#","#"," ","D","e","c","l","a","r","a","t","i","o","n","s">> >>,
      references    |-> << <<"#","#"," ","R","e","f","e","r","e","n","c","e","s">> >> ]

\* index of the last "\n" among s[q..i], 0 when there is none
RECURSIVE LastNewline(_, _, _)
LastNewline(s, q, i) ==
    IF i < q THEN 0
    ELSE IF s[i] = "\n" THEN i
    ELSE LastNewline(s, q, i - 1)

\* <lit>\s*\n tried at index p: the greedy \s* takes the whole whitespace run
\* and backtracks to the run's last "\n", which the \n of the pattern then
\* matches.  The index of that "\n", or 0 when the pattern fails at p.
HeadingAt(s, p, lit) ==
    IF ~StartsAt(s, p, lit) THEN 0
    ELSE LET q == p + Len(lit) IN LastNewline(s, q, SkipWs(s, q) - 1)

\* the alternatives of a heading tried in order at p
RECURSIVE HeadingAltsAt(_, _, _)
HeadingAltsAt(s, p, alts) ==
    IF alts = <<>> THEN 0
    ELSE LET n == HeadingAt(s, p, Head(alts))
         IN  IF n # 0 THEN n ELSE HeadingAltsAt(s, p, Tail(alts))

\* re.search of a section pattern: the leftmost index where it matches;
\* the value is the index of the "\n" that ends the heading (0: no match)
RECURSIVE SearchHeading(_, _, _)
SearchHeading(s, alts, p) ==
    IF p > Len(s) THEN 0
    ELSE LET n == HeadingAltsAt(s, p, alts)
         IN  IF n # 0 THEN n ELSE SearchHeading(s, alts, p + 1)

\* group(1) = (.*?)(?=\n##|\Z) from the character after the heading's "\n":
\* the lazy group stops before the first "\n##", else at the end of the text
SectionGroup(s, nl) ==
    LET e == Find(s, <<"\n","#","#">>, nl + 1)
    IN  SubSeq(s, nl + 1, IF e = 0 THEN Len(s) ELSE e - 1)

\* re.search(r'# (.*?)(?:\n|$)', content): group(1) of the leftmost "# "
TitleGroup(s, p) ==
    LET e == Find(s, <<"\n">>, p + 2)
    IN  SubSeq(s, p + 2, IF e = 0 THEN Len(s) ELSE e - 1)

\* the section map: a function from the names found to their text
split_into_sections(content) ==
    LET t       == Find(content, <<"#"," ">>, 1)
        found   == { n \in DOMAIN section_patterns :
                        SearchHeading(content, section_patterns[n], 1) # 0 }
        keys    == found \cup (IF t # 0 THEN {"title"} ELSE {})
    IN  [ n \in keys |->
            IF n = "title" THEN TitleGroup(content, t)
            ELSE strip(SectionGroup(content,
                        SearchHeading(content, section_patterns[n], 1))) ]

(***************************************************************************)
(* The python-docx document the formatter builds.                          *)
(*   doc.header : the runs of the header paragraph                         *)
(*   doc.body   : paragraphs [kind, align, runs]; a run is [text, bold,    *)
(*                italic]; doc.add_page_break() adds a "pagebreak" element *)
(* Font name and size (Times New Roman, 12pt) are the same for every run   *)
(* and are left out, as are spacing and indentation.                       *)
(* A rendering state r = [doc, log, exc] threads the document, the log     *)
(* records written so far and the exception in flight ("none": none).      *)
(***************************************************************************)
\* characters lxml refuses in a run's text (python-docx add_run then raises
\* ValueError: All strings must be XML compatible)
ControlChars == {"\f"}

XMLCompatible(text) == \A i \in 1..Len(text) : text[i] \notin ControlChars

Run(text, bold, italic) == [text |-> text, bold |-> bold, italic |-> italic]

\* the runs para.add_run adds before the first one that raises
RECURSIVE AddedRuns(_)
AddedRuns(runs) ==
    IF runs = <<>> \/ ~XMLCompatible(Head(runs).text) THEN <<>>
    ELSE <<Head(runs)>> \o AddedRuns(Tail(runs))

\* doc.add_paragraph() followed by para.add_run(...) for each run in turn
AddParagraph(r, align, runs) ==
    IF r.exc # "none" THEN r
    ELSE LET added == AddedRuns(runs)
         IN  [r EXCEPT !.doc.body = Append(@, [kind |-> "para", align |-> align,
                                                runs |-> added]),
                       !.exc = IF Len(added) < Len(runs) THEN "ValueError" ELSE "none"]

\* doc.add_page_break()
AddPageBreak(r) ==
    IF r.exc # "none" THEN r
    ELSE [r EXCEPT !.doc.body = Append(@, [kind |-> "pagebreak", align |-> "",
                                            runs |-> <<>>])]

\* logger.info / logger.warning on the normal path
Logged(r, level, msg) ==
    IF r.exc # "none" THEN r
    ELSE [r EXCEPT !.log = Append(@, <<level, msg>>)]

\* except Exception as e: logger.error(msg); raise
LogAndReraise(r, msg) ==
    IF r.exc = "none" THEN r
    ELSE [r EXCEPT !.log = Append(@, <<"ERROR", msg>>)]

\* str(n) of a natural number, as f"{n}" formats it
DigitChar(d) == <<"0", "1", "2", "3", "4", "5", "6", "7", "8", "9">>[d + 1]

RECURSIVE str_int(_)
str_int(n) ==
    IF n < 10 THEN <<DigitChar(n)>>
    ELSE str_int(n \div 10) \o <<DigitChar(n % 10)>>

(***************************************************************************)
(* convert_to_jama_format.py: add_page_numbers                             *)
(***************************************************************************)
add_page_numbers(r0) ==
    LET r1 == [r0 EXCEPT !.doc.header = Append(@, [field |-> "PAGE",
                                                    align |-> "RIGHT"])]
        r2 == Logged(r1, "INFO", "Page numbers added successfully")
    IN  LogAndReraise(r2, "Error adding page numbers")

(***************************************************************************)
(* convert_to_jama_format.py: process_title_page                           *)
(***************************************************************************)
\* re.search(<label>:\s*(.*?)(?=\n\n\*\*|\Z), s, re.DOTALL):
\* <<matched, group(1)>>
LabelledGroup(s, label) ==
    LET p  == Find(s, label, 1)
        st == SkipWs(s, p + Len(label))
        e  == Find(s, <<"\n","\n","*","*">>, st)
    IN  IF p = 0 THEN <<FALSE, <<>>>>
        ELSE <<TRUE, SubSeq(s, st, IF e = 0 THEN Len(s) ELSE e - 1)>>

\* one of the authors / affiliations / corresponding-author paragraphs
TitlePageBlock(r, author_text, label, align) ==
    LET m == LabelledGroup(author_text, label)
    IN  IF m[1] THEN AddParagraph(r, align, <<Run(clean_markdown(m[2]), FALSE, FALSE)>>)
        ELSE r

\* the sections whose words the title page counts, in the code's order
BodySections == <<"introduction", "methods", "results", "discussion", "conclusion">>

\* a faulty variant: the abstract is counted with the body
RECURSIVE BodyWordCountWithAbstract(_, _)
BodyWordCountWithAbstract(secs, names) ==
    IF names = <<>>
    THEN (IF "abstract" \in DOMAIN secs THEN count_words(secs["abstract"]) ELSE 0)
    ELSE (IF Head(names) \in DOMAIN secs THEN count_words(secs[Head(names)]) ELSE 0)
         + BodyWordCountWithAbstract(secs, Tail(names))

RECURSIVE BodyWordCount(_, _)
BodyWordCount(secs, names) ==
    IF names = <<>> THEN 0
    ELSE (IF Head(names) \in DOMAIN secs THEN count_words(secs[Head(names)]) ELSE 0)
         + BodyWordCount(secs, Tail(names))

\* the authors, affiliations and corresponding author, when the manuscript
\* has a title page section
TitlePageBlocks(r, secs) ==
    IF "title_page" \in DOMAIN secs
    THEN TitlePageBlock(
            TitlePageBlock(
                TitlePageBlock(r, secs["title_page"], <<"*","*","A","u","t","h","o","r","s","*","*",":">>, "CENTER"),
                secs["title_page"], <<"*","*","A","f","f","i","l","i","a","t","i","o","n","s","*","*",":">>, "CENTER"),
            secs["title_page"], <<"*","*","C","o","r","r","e","s","p","o","n","d","i","n","g"," ","A","u","t","h","o","r","*","*",":">>, "LEFT")
    ELSE r

process_title_page(r0, secs) ==
    LET title == IF "title" \in DOMAIN secs THEN secs["title"]
                 ELSE <<"U","n","t","i","t","l","e","d"," ","M","a","n","u","s","c","r","i","p","t">>
        r1 == AddParagraph(r0, "CENTER", <<Run(title, TRUE, FALSE)>>)
        r2 == TitlePageBlocks(r1, secs)
        r3 == AddParagraph(r2, "CENTER",
                  <<Run(<<"W","o","r","d"," ","C","o","u","n","t",":"," ">> \o str_int(BodyWordCount(secs, BodySections)),
                        FALSE, FALSE)>>)
        r4 == AddPageBreak(r3)
        r5 == Logged(r4, "INFO", "Title page processed successfully")
    IN  LogAndReraise(r5, "Error processing title page")

(***************************************************************************)
(* convert_to_jama_format.py: process_abstract_page                        *)
(***************************************************************************)
\* re.findall(r'\*\*(.*?)\*\*:\s*(.*?)(?=\n\n\*\*|\Z)', s, re.DOTALL) from pos:
\* the <<label, content>> pairs in order
RECURSIVE abstract_parts(_, _)
abstract_parts(s, pos) ==
    LET p == Find(s, <<"*","*">>, pos)
        l == Find(s, <<"*","*",":">>, p + 2)
        st == SkipWs(s, l + 3)
        e == Find(s, <<"\n","\n","*","*">>, st)
        end == IF e = 0 THEN Len(s) + 1 ELSE e
    IN  IF p = 0 \/ l = 0 THEN <<>>
        ELSE << <<SubSeq(s, p + 2, l - 1), SubSeq(s, st, end - 1)>> >>
             \o abstract_parts(s, end)

\* a faulty variant of the loop: the content run keeps its markdown
RECURSIVE RenderAbstractPartsRaw(_, _)
RenderAbstractPartsRaw(r, parts) ==
    IF parts = <<>> THEN r
    ELSE RenderAbstractPartsRaw(
            AddParagraph(r, "", << Run(Head(parts)[1] \o <<":"," ">>, TRUE, FALSE),
                                   Run(strip(Head(parts)[2]), FALSE, FALSE) >>),
            Tail(parts))

\* the for loop over abstract_parts
RECURSIVE RenderAbstractParts(_, _)
RenderAbstractParts(r, parts) ==
    IF parts = <<>> THEN r
    ELSE RenderAbstractParts(
            AddParagraph(r, "", << Run(Head(parts)[1] \o <<":"," ">>, TRUE, FALSE),
                                   Run(clean_markdown(strip(Head(parts)[2])), FALSE, FALSE) >>),
            Tail(parts))

\* the inner try/except: the structured rendering, and on an exception the
\* error record and the simple paragraph with the whole abstract
AbstractFallback(t, abstract) ==
    IF t.exc = "none" THEN t
    ELSE AddParagraph(
            [t EXCEPT !.exc = "none",
                      !.log = Append(@, <<"ERROR", "Error processing structured abstract">>)],
            "", <<Run(clean_markdown(abstract), FALSE, FALSE)>>)

RenderAbstract(r, abstract) ==
    IF r.exc # "none" THEN r
    ELSE AbstractFallback(RenderAbstractParts(r, abstract_parts(abstract, 1)), abstract)

\* a faulty variant: the page heading is written before the section is looked up
process_abstract_page_unguarded(r0, secs) ==
    LET r1 == AddParagraph(r0, "CENTER", <<Run(<<"A","B","S","T","R","A","C","T">>, TRUE, FALSE)>>)
    IN  IF "abstract" \notin DOMAIN secs
        THEN Logged(r1, "WARNING", "Abstract section not found in manuscript")
        ELSE LogAndReraise(AddPageBreak(RenderAbstract(r1, secs["abstract"])),
                           "Error processing abstract page")

process_abstract_page(r0, secs) ==
    IF "abstract" \notin DOMAIN secs
    THEN Logged(r0, "WARNING", "Abstract section not found in manuscript")
    ELSE LET r1 == AddParagraph(r0, "CENTER", <<Run(<<"A","B","S","T","R","A","C","T">>, TRUE, FALSE)>>)
             r2 == AddParagraph(r1, "CENTER",
                      <<Run(<<"W","o","r","d"," ","C","o","u","n","t",":"," ">> \o str_int(count_words(secs["abstract"])),
                            FALSE, FALSE)>>)
             r3 == RenderAbstract(r2, secs["abstract"])
             r4 == AddPageBreak(r3)
             r5 == Logged(r4, "INFO", "Abstract page processed successfully")
         IN  LogAndReraise(r5, "Error processing abstract page")

(***************************************************************************)
(* convert_to_jama_format.py: process_abbreviations_section,               *)
(* process_declarations_section, process_references_section,               *)
(* process_paragraphs                                                      *)
(***************************************************************************)
\* a bold section heading paragraph
AddHeading(r, text) == AddParagraph(r, "", <<Run(text, TRUE, FALSE)>>)

process_abbreviations_section(r0, text) ==
    LET r1 == AddHeading(r0, <<"L","i","s","t"," ","o","f"," ","A","b","b","r","e","v","i","a","t","i","o","n","s">>)
        r2 == AddParagraph(r1, "", <<Run(clean_markdown(text), FALSE, FALSE)>>)
        r3 == Logged(r2, "INFO", "Abbreviations section processed successfully")
    IN  LogAndReraise(r3, "Error processing abbreviations section")

\* index of the last "\n\n" that lies within s[t..hi], 0 when there is none
RECURSIVE LastBlankLine(_, _, _)
LastBlankLine(s, t, k) ==
    IF k < t THEN 0
    ELSE IF s[k] = "\n" /\ s[k + 1] = "\n" THEN k
    ELSE LastBlankLine(s, t, k - 1)

\* (.*?)\s*\n\n from t: the lazy title ends at the least index t whose
\* whitespace run holds a "\n\n"; the greedy \s* then gives way to the last
\* "\n\n" of that run.  <<t, index of that "\n\n">>, or <<0, 0>>
RECURSIVE DeclTitleEnd(_, _)
DeclTitleEnd(s, t) ==
    IF t > Len(s) THEN <<0, 0>>
    ELSE LET k == LastBlankLine(s, t, SkipWs(s, t) - 2)
         IN  IF k # 0 THEN <<t, k>> ELSE DeclTitleEnd(s, t + 1)

\* re.findall(r'### (.*?)\s*\n\n(.*?)(?=\n\n###|\Z)', s, re.DOTALL) from pos
RECURSIVE declaration_sections(_, _)
declaration_sections(s, pos) ==
    LET p == Find(s, <<"#","#","#"," ">>, pos)
        m == DeclTitleEnd(s, p + 4)
        c0 == m[2] + 2
        e == Find(s, <<"\n","\n","#","#","#">>, c0)
        end == IF e = 0 THEN Len(s) + 1 ELSE e
    IN  IF p = 0 \/ m[1] = 0 THEN <<>>
        ELSE << <<SubSeq(s, p + 4, m[1] - 1), SubSeq(s, c0, end - 1)>> >>
             \o declaration_sections(s, end)

\* the for loop over declaration_sections
RECURSIVE RenderDeclarations(_, _)
RenderDeclarations(r, decls) ==
    IF decls = <<>> THEN r
    ELSE LET r1 == AddParagraph(r, "", <<Run(Head(decls)[1], FALSE, TRUE)>>)
             r2 == AddParagraph(r1, "",
                       <<Run(clean_markdown(strip(Head(decls)[2])), FALSE, FALSE)>>)
         IN  RenderDeclarations(r2, Tail(decls))

process_declarations_section(r0, text) ==
    LET r1 == AddHeading(r0, <<"D","e","c","l","a","r","a","t","i","o","n","s">>)
        r2 == RenderDeclarations(r1, declaration_sections(text, 1))
        r3 == Logged(r2, "INFO", "Declarations section processed successfully")
    IN  LogAndReraise(r3, "Error processing declarations section")

\* a faulty variant: a blank line gets a paragraph too
RECURSIVE RenderReferencesEveryLine(_, _)
RenderReferencesEveryLine(r, refs) ==
    IF refs = <<>> THEN r
    ELSE RenderReferencesEveryLine(
            AddParagraph(r, "", <<Run(clean_markdown(strip(Head(refs))), FALSE, FALSE)>>),
            Tail(refs))

\* the for loop over content.split('\n'): blank lines are skipped
RECURSIVE RenderReferences(_, _)
RenderReferences(r, refs) ==
    IF refs = <<>> THEN r
    ELSE RenderReferences(
            IF strip(Head(refs)) # <<>>
            THEN AddParagraph(r, "", <<Run(clean_markdown(strip(Head(refs))), FALSE, FALSE)>>)
            ELSE r,
            Tail(refs))

process_references_section(r0, text) ==
    LET r1 == AddHeading(r0, <<"R","e","f","e","r","e","n","c","e","s">>)
        r2 == RenderReferences(r1, split(text, <<"\n">>))
        r3 == Logged(r2, "INFO", "References section processed successfully")
    IN  LogAndReraise(r3, "Error processing references section")

\* section_name.capitalize() of the five body section names
Capitalized ==
    [ introduction |-> <<"I","n","t","r","o","d","u","c","t","i","o","n">>, methods |-> <<"M","e","t","h","o","d","s">>,
      results |-> <<"R","e","s","u","l","t","s">>, discussion |-> <<"D","i","s","c","u","s","s","i","o","n">>,
      conclusion |-> <<"C","o","n","c","l","u","s","i","o","n">> ]

\* the for loop over sections[section_name].split('\n\n')
RECURSIVE RenderBodyParagraphs(_, _)
RenderBodyParagraphs(r, paragraphs) ==
    IF paragraphs = <<>> THEN r
    ELSE RenderBodyParagraphs(
            AddParagraph(r, "", <<Run(clean_markdown(strip(Head(paragraphs))), FALSE, FALSE)>>),
            Tail(paragraphs))

\* the for loop over the main content sections
RECURSIVE RenderBodySections(_, _, _)
RenderBodySections(r, secs, names) ==
    IF names = <<>> THEN r
    ELSE RenderBodySections(
            IF Head(names) \in DOMAIN secs
            THEN RenderBodyParagraphs(AddHeading(r, Capitalized[Head(names)]),
                                      split(secs[Head(names)], <<"\n","\n">>))
            ELSE r,
            secs, Tail(names))

\* if 'abbreviations' in sections: ...
AbbreviationsIfPresent(r, secs) ==
    IF "abbreviations" \in DOMAIN secs /\ r.exc = "none"
    THEN process_abbreviations_section(r, secs["abbreviations"]) ELSE r

\* if 'declarations' in sections: ...
DeclarationsIfPresent(r, secs) ==
    IF "declarations" \in DOMAIN secs /\ r.exc = "none"
    THEN process_declarations_section(r, secs["declarations"]) ELSE r

\* if 'references' in sections: ...
ReferencesIfPresent(r, secs) ==
    IF "references" \in DOMAIN secs /\ r.exc = "none"
    THEN process_references_section(r, secs["references"]) ELSE r

\* a faulty variant: the references are rendered before the body
process_paragraphs_references_first(r0, secs) ==
    LET r1 == ReferencesIfPresent(r0, secs)
        r2 == RenderBodySections(r1, secs, BodySections)
        r3 == AbbreviationsIfPresent(r2, secs)
        r4 == DeclarationsIfPresent(r3, secs)
        r5 == Logged(r4, "INFO", "Paragraphs processed successfully")
    IN  LogAndReraise(r5, "Error processing paragraphs")

process_paragraphs(r0, secs) ==
    LET r1 == RenderBodySections(r0, secs, BodySections)
        r2 == AbbreviationsIfPresent(r1, secs)
        r3 == DeclarationsIfPresent(r2, secs)
        r4 == ReferencesIfPresent(r3, secs)
        r5 == Logged(r4, "INFO", "Paragraphs processed successfully")
    IN  LogAndReraise(r5, "Error processing paragraphs")

(***************************************************************************)
(* convert_to_jama_format.py: convert_cover_letter                         *)
(***************************************************************************)
\* datetime.datetime.now().strftime("%B %d, %Y") on the day of the run
Today == <<"N","o","v","e","m","b","e","r"," ","0","1",","," ","2","0","2","6">>

\* p is where a line of s begins (^ under re.MULTILINE)
LineStart(s, p) == p = 1 \/ (p >= 2 /\ p <= Len(s) + 1 /\ s[p - 1] = "\n")

\* ^\s*<lit> tried at p: the index after lit, 0 when it fails
PrefixedAt(s, p, lit) ==
    LET q == SkipWs(s, p)
    IN  IF LineStart(s, p) /\ StartsAt(s, q, lit) THEN q + Len(lit) ELSE 0

\* re.search(r'^\s*To:\s*(.*?)(?=\n\n|\Z)', s, re.MULTILINE | re.DOTALL) from p:
\* <<start of group(0), start of group(1), end of the match (exclusive)>>
RECURSIVE addressee_match(_, _)
addressee_match(s, p) ==
    IF p > Len(s) THEN <<0, 0, 0>>
    ELSE LET a == PrefixedAt(s, p, <<"T","o",":">>)
             st == SkipWs(s, a)
             e == Find(s, <<"\n","\n">>, st)
         IN  IF a = 0 THEN addressee_match(s, p + 1)
             ELSE <<p, st, IF e = 0 THEN Len(s) + 1 ELSE e>>

\* [ \t]* (greedy) from i: the index of the first character it leaves
RECURSIVE SkipBlanks(_, _)
SkipBlanks(s, i) ==
    IF i <= Len(s) /\ s[i] \in {" ", "\t"} THEN SkipBlanks(s, i + 1) ELSE i

\* <lit>[ \t]*(.+?)$ after ^\s* at p (re.MULTILINE, "." stops at "\n"):
\* the blanks are given back one at a time until (.+?) has a character, and
\* the lazy group then runs to the end of the line.
\* <<start of group, end of the match (exclusive)>>, or <<0, 0>>
SubjectAltAt(s, p, lit) ==
    LET a == PrefixedAt(s, p, lit)
        b == SkipBlanks(s, a)
        eol == LET n == Find(s, <<"\n">>, b) IN IF n = 0 THEN Len(s) + 1 ELSE n
    IN  IF a = 0 THEN <<0, 0>>
        ELSE IF b < eol THEN <<b, eol>>          \* text follows the blanks
        ELSE IF b > a THEN <<b - 1, eol>>        \* only blanks: the last one is the group
        ELSE <<0, 0>>

\* re.search(r'^\s*Re:[ \t]*(.+?)$|^\s*Subject:[ \t]*(.+?)$', s, re.MULTILINE):
\* <<start of group(0), start of the group that matched, end (exclusive)>>
RECURSIVE subject_match(_, _)
subject_match(s, p) ==
    IF p > Len(s) THEN <<0, 0, 0>>
    ELSE LET m1 == SubjectAltAt(s, p, <<"R","e",":">>)
             m2 == SubjectAltAt(s, p, <<"S","u","b","j","e","c","t",":">>)
         IN  IF m1[1] # 0 THEN <<p, m1[1], m1[2]>>
             ELSE IF m2[1] # 0 THEN <<p, m2[1], m2[2]>>
             ELSE subject_match(s, p + 1)

\* s.replace(old, '', 1): the first occurrence of old removed
RemoveFirst(s, old) ==
    LET i == Find(s, old, 1)
    IN  IF i = 0 \/ old = <<>> THEN s
        ELSE SubSeq(s, 1, i - 1) \o SubSeq(s, i + Len(old), Len(s))

RECURSIVE SkipNewlines(_, _)
SkipNewlines(s, i) ==
    IF i <= Len(s) /\ s[i] = "\n" THEN SkipNewlines(s, i + 1) ELSE i

\* re.split(r'\n\n+', s)
RECURSIVE split_blank_lines(_)
split_blank_lines(s) ==
    LET i == Find(s, <<"\n","\n">>, 1)
    IN  IF i = 0 THEN <<s>>
        ELSE <<SubSeq(s, 1, i - 1)>>
             \o split_blank_lines(SubSeq(s, SkipNewlines(s, i), Len(s)))

\* [^,^]+ (greedy) from i: the index of the first character it leaves
RECURSIVE SkipName(_, _)
SkipName(s, i) ==
    IF i <= Len(s) /\ s[i] \notin {",", "^"} THEN SkipName(s, i + 1) ELSE i

\* ([^,^]+)(?:\^\d+\^)?(?:,|\Z) tried at p: the end of the match (exclusive),
\* 0 when it fails.  q is the end of the name.
AuthorEnd(s, q) ==
    LET d == SkipDigits(s, q + 1)
    IN  IF q > Len(s) THEN q
        ELSE IF s[q] = "," THEN q + 1
        ELSE IF d > q + 1 /\ StartsAt(s, d, <<"^">>) /\ d = Len(s) THEN d + 1
        ELSE IF d > q + 1 /\ StartsAt(s, d, <<"^",",">>) THEN d + 2
        ELSE 0

\* re.findall(r'([^,^]+)(?:\^\d+\^)?(?:,|\Z)', s) from p
RECURSIVE author_list(_, _)
author_list(s, p) ==
    IF p > Len(s) THEN <<>>
    ELSE LET q == SkipName(s, p)
             e == IF q > p THEN AuthorEnd(s, q) ELSE 0
         IN  IF e = 0 THEN author_list(s, p + 1)
             ELSE <<SubSeq(s, p, q - 1)>> \o author_list(s, e)

\* the signature line written when the author names cannot be extracted
GenericSignature == <<"_","_","_","_","_","_","_","_","_","_","_","_","_","_","_","_","_","_","_","_","_","_","_">>

\* the for loop over the paragraphs: blank ones are skipped
RECURSIVE RenderCoverParagraphs(_, _)
RenderCoverParagraphs(r, paragraphs) ==
    IF paragraphs = <<>> THEN r
    ELSE RenderCoverParagraphs(
            IF strip(Head(paragraphs)) # <<>>
            THEN AddParagraph(r, "", <<Run(clean_markdown(strip(Head(paragraphs))), FALSE, FALSE)>>)
            ELSE r,
            Tail(paragraphs))

\* the for loop over author_list
RECURSIVE RenderAuthorSignatures(_, _)
RenderAuthorSignatures(r, authors) ==
    IF authors = <<>> THEN r
    ELSE RenderAuthorSignatures(
            AddParagraph(r, "", <<Run(strip(Head(authors)), FALSE, FALSE)>>),
            Tail(authors))

\* the inner try/except: the author names are read from the manuscript file;
\* any exception there is answered with the generic signature line
AuthorSignatures(r, m) ==
    IF m[1] THEN RenderAuthorSignatures(r, author_list(m[2], 1)) ELSE r

GenericFallback(t) ==
    IF t.exc = "none" THEN t
    ELSE AddParagraph([t EXCEPT !.exc = "none"], "", <<Run(GenericSignature, FALSE, FALSE)>>)

cover_signatures(r, fs, manuscript_file) ==
    IF r.exc # "none" THEN r
    ELSE GenericFallback(
            IF "read_authors" \in fs THEN [r EXCEPT !.exc = "OSError"]
            ELSE AuthorSignatures(r, LabelledGroup(manuscript_file, <<"*","*","A","u","t","h","o","r","s","*","*",":">>)))

\* a fresh Document() with the page set up: 8.5 x 11 in, 1 in margins
EmptyDoc == [header |-> <<>>, body |-> <<>>]

\* fs: the I/O operations that fail in this run; the result's exc tells
\* whether cover_letter.docx was saved (exc = "none") with the result's doc
CoverAddressee(r, c, am) ==
    IF am[1] # 0
    THEN AddParagraph(r, "", <<Run(clean_markdown(strip(SubSeq(c, am[2], am[3] - 1))),
                                   FALSE, FALSE)>>)
    ELSE r

CoverSubject(r, c, sm) ==
    IF sm[1] # 0
    THEN AddParagraph(r, "", <<Run(<<"R","e",":"," ">> \o clean_markdown(strip(SubSeq(c, sm[2], sm[3] - 1))),
                                   TRUE, FALSE)>>)
    ELSE r

\* content.replace(match.group(0), '', 1) when the pattern matched
WithoutMatch(c, m) ==
    IF m[1] # 0 THEN RemoveFirst(c, SubSeq(c, m[1], m[3] - 1)) ELSE c

\* doc.save(output_file)
CoverSaved(r, fs) ==
    IF r.exc = "none" /\ "save_cover" \in fs THEN [r EXCEPT !.exc = "OSError"] ELSE r

\* the letter after the addressee block and the subject line are taken out
CoverBody(c) == WithoutMatch(WithoutMatch(c, addressee_match(c, 1)),
                             subject_match(WithoutMatch(c, addressee_match(c, 1)), 1))

convert_cover_letter(r0, fs, cover_file, manuscript_file) ==
    LET start == [r0 EXCEPT !.doc = EmptyDoc,
                            !.exc = IF "read_cover" \in fs THEN "OSError" ELSE "none"]
        r1 == AddParagraph(start, "", <<Run(Today, FALSE, FALSE)>>)
        r2 == CoverAddressee(r1, cover_file, addressee_match(cover_file, 1))
        c2 == WithoutMatch(cover_file, addressee_match(cover_file, 1))
        r3 == CoverSubject(r2, c2, subject_match(c2, 1))
        r4 == RenderCoverParagraphs(r3, split_blank_lines(strip(CoverBody(cover_file))))
        r5 == AddParagraph(r4, "", <<Run(<<"S","i","n","c","e","r","e","l","y",",">>, FALSE, FALSE)>>)
        r6 == cover_signatures(r5, fs, manuscript_file)
        r7 == CoverSaved(r6, fs)
        r8 == Logged(r7, "INFO", "Cover letter successfully converted and saved")
    IN  LogAndReraise(r8, "Error converting cover letter")

\* no document yet and an empty log
NewRendering == [doc |-> EmptyDoc, log |-> <<>>, exc |-> "none"]

(***************************************************************************)
(* starter.py: categorize_disease                                          *)
(***************************************************************************)
\* a missing value (NaN), for which pd.isna() is true: no str, which is a
\* sequence of single characters
NaN == <<"NaN">>

LowerCase == <<"a","b","c","d","e","f","g","h","i","j","k","l","m","n","o","p","q","r","s","t","u","v","w","x","y","z">>
UpperCase == <<"A","B","C","D","E","F","G","H","I","J","K","L","M","N","O","P","Q","R","S","T","U","V","W","X","Y","Z">>

\* str.upper() of one character of the model's alphabet
UpperChar(c) ==
    IF \E i \in 1..Len(LowerCase) : LowerCase[i] = c
    THEN UpperCase[CHOOSE i \in 1..Len(LowerCase) : LowerCase[i] = c]
    ELSE c

\* str.upper()
upper(s) == [i \in 1..Len(s) |-> UpperChar(s[i])]

\* the dict disease_categories in its insertion order: <<category, keywords>>
disease_categories ==
    << <<"COVID-19", << <<"C","O","V","I","D">>, <<"S","A","R","S","-","C","O","V","-","2">>, <<"C","O","R","O","N","A","V","I","R","U","S">>, <<"C","O","R","O","N","A"," ","V","I","R","U","S">> >> >>,
       <<"HIV/AIDS", << <<"H","I","V">>, <<"A","I","D","S">>, <<"H","U","M","A","N"," ","I","M","M","U","N","O","D","E","F","I","C","I","E","N","C","Y"," ","V","I","R","U","S">> >> >>,
       <<"Cancer", << <<"C","A","N","C","E","R">>, <<"T","U","M","O","R">>, <<"N","E","O","P","L","A","S","M">>, <<"C","A","R","C","I","N","O","M","A">>, <<"L","E","U","K","E","M","I","A">>,
                      <<"L","Y","M","P","H","O","M","A">>, <<"O","N","C","O","L","O","G","Y">> >> >>,
       <<"Cardiovascular", << <<"H","E","A","R","T">>, <<"C","A","R","D","I","A","C">>, <<"C","A","R","D","I","O","V","A","S","C","U","L","A","R">>, <<"S","T","R","O","K","E">>,
                              <<"H","Y","P","E","R","T","E","N","S","I","O","N">> >> >>,
       <<"Diabetes", << <<"D","I","A","B","E","T","E","S">>, <<"D","I","A","B","E","T","I","C">> >> >>,
       <<"Mental Health", << <<"P","S","Y","C","H","I","A","T","R","I","C">>, <<"D","E","P","R","E","S","S","I","O","N">>, <<"A","N","X","I","E","T","Y">>, <<"S","C","H","I","Z","O","P","H","R","E","N","I","A">>,
                             <<"B","I","P","O","L","A","R">>, <<"M","E","N","T","A","L">> >> >>,
       <<"Respiratory", << <<"A","S","T","H","M","A">>, <<"C","O","P","D">>, <<"L","U","N","G">>, <<"P","U","L","M","O","N","A","R","Y">>, <<"R","E","S","P","I","R","A","T","O","R","Y">> >> >>,
       <<"Infectious Disease", << <<"I","N","F","E","C","T","I","O","N">>, <<"I","N","F","E","C","T","I","O","U","S">>, <<"B","A","C","T","E","R","I","A","L">>, <<"V","I","R","A","L">>,
                                  <<"F","U","N","G","A","L">>, <<"M","A","L","A","R","I","A">>, <<"T","U","B","E","R","C","U","L","O","S","I","S">> >> >> >>

\* any(keyword in conditions for keyword in keywords)
AnyKeywordIn(keywords, s) ==
    \E k \in 1..Len(keywords) : Find(s, keywords[k], 1) # 0

\* the for loop over disease_categories.items() from the i-th item on
RECURSIVE FirstCategory(_, _, _)
FirstCategory(cats, s, i) ==
    IF i > Len(cats) THEN "Other"
    ELSE IF AnyKeywordIn(cats[i][2], s) THEN cats[i][1]
    ELSE FirstCategory(cats, s, i + 1)

\* a faulty variant: the keywords are looked up in the text as written
categorize_disease_as_written(conds) ==
    IF conds = NaN THEN "Unknown"
    ELSE FirstCategory(disease_categories, conds, 1)

categorize_disease(conds) ==
    IF conds = NaN THEN "Unknown"
    ELSE FirstCategory(disease_categories, upper(conds), 1)

(***************************************************************************)
(* starter.py: categorize_by_sex                                           *)
(***************************************************************************)
\* keyword in text, for two str values
In(keyword, text) == Find(text, keyword, 1) # 0

\* the chain of comparisons on the value that str(sex_value).upper() gave
SexOfUpper(sex_value) ==
    IF sex_value = <<"F","E","M","A","L","E">> \/ sex_value = <<"F">> THEN "Female Only"
    ELSE IF sex_value = <<"M","A","L","E">> \/ sex_value = <<"M">> THEN "Male Only"
    ELSE IF In(<<"F","E","M","A","L","E">>, sex_value) /\ In(<<"M","A","L","E">>, sex_value) THEN "Both Sexes"
    ELSE IF In(<<"A","L","L">>, sex_value) THEN "Both Sexes"
    ELSE "Unknown"

\* a faulty variant: the value is compared as written, without upper()
categorize_by_sex_as_written(sex_value) ==
    IF sex_value = NaN \/ sex_value = <<"U","n","k","n","o","w","n">> THEN "Unknown"
    ELSE SexOfUpper(sex_value)

categorize_by_sex(sex_value) ==
    IF sex_value = NaN \/ sex_value = <<"U","n","k","n","o","w","n">> THEN "Unknown"
    ELSE SexOfUpper(upper(sex_value))

(***************************************************************************)
(* starter.py: analyze_sex_representation_equity                           *)
(* A DataFrame is a sequence of rows.  Ratios are kept exact: the expected *)
(* female ratio in thousandths, a quotient as the pair <<numerator,        *)
(* denominator>>.  The chi-square statistic, the p-value and the           *)
(* significance flag are functions of the contingency table alone and are  *)
(* kept as the table they are computed from.                               *)
(***************************************************************************)
\* EXPECTED_FEMALE_RATIO = 0.508, in thousandths
EXPECTED_FEMALE_RATIO == 508

\* Series.unique(): the distinct values in the order of first appearance
RECURSIVE unique(_)
unique(xs) ==
    IF xs = <<>> THEN <<>>
    ELSE LET u == unique(SubSeq(xs, 1, Len(xs) - 1))
         IN  IF \E i \in 1..Len(u) : u[i] = xs[Len(xs)] THEN u
             ELSE Append(u, xs[Len(xs)])

\* df['Disease_Category']
DiseaseColumn(frame) == [i \in 1..Len(frame) |-> frame[i].Disease_Category]

\* len(disease_trials[disease_trials['Sex_Category'] == sex])
CountSex(frame, disease, sex) ==
    Cardinality({ i \in 1..Len(frame) :
                    frame[i].Disease_Category = disease /\ frame[i].Sex_Category = sex })

\* len(disease_trials)
CountTrials(frame, disease) ==
    Cardinality({ i \in 1..Len(frame) : frame[i].Disease_Category = disease })

\* a faulty variant: every trial of the category counts once, the trials of
\* Unknown sex included
TotalPotentialOfAllTrials(frame, disease) ==
    CountSex(frame, disease, "Both Sexes") * 2
    + (CountTrials(frame, disease) - CountSex(frame, disease, "Both Sexes"))

\* total_potential_participants
TotalPotential(frame, disease) ==
    CountSex(frame, disease, "Both Sexes") * 2
    + CountSex(frame, disease, "Female Only") + CountSex(frame, disease, "Male Only")

\* actual_female
ActualFemale(frame, disease) ==
    CountSex(frame, disease, "Both Sexes") + CountSex(frame, disease, "Female Only")

\* [observed, expected], the expected row in thousandths
ContingencyTable(frame, disease) ==
    << << ActualFemale(frame, disease),
          TotalPotential(frame, disease) - ActualFemale(frame, disease) >>,
       << TotalPotential(frame, disease) * EXPECTED_FEMALE_RATIO,
          TotalPotential(frame, disease) * (1000 - EXPECTED_FEMALE_RATIO) >> >>

\* what scipy.stats.chi2_contingency can do with the table: on a table of
\* zeros the expected frequencies are 0/0, and depending on the scipy release
\* the call raises ValueError or returns NaN statistics
chi2_contingency(table) ==
    IF table[1][1] + table[1][2] = 0 /\ table[2][1] + table[2][2] = 0
    THEN {"ValueError", "nan"}
    ELSE {"statistic"}

\* the exception one pass of the loop body ends with ("none": none), given
\* what chi2_contingency did: the quotient actual_female /
\* total_potential_participants of two ints raises on a zero denominator
CategoryException(frame, disease, chi2) ==
    IF chi2 = "ValueError" THEN "ValueError"
    ELSE IF TotalPotential(frame, disease) = 0 THEN "ZeroDivisionError"
    ELSE "none"

\* results[disease]
CategoryResult(frame, disease) ==
    [ total_trials           |-> CountTrials(frame, disease),
      both_sex_trials        |-> CountSex(frame, disease, "Both Sexes"),
      female_only_trials     |-> CountSex(frame, disease, "Female Only"),
      male_only_trials       |-> CountSex(frame, disease, "Male Only"),
      potential_female_ratio |-> << ActualFemale(frame, disease),
                                    TotalPotential(frame, disease) >>,
      expected_female_ratio  |-> EXPECTED_FEMALE_RATIO,
      chi2_table             |-> ContingencyTable(frame, disease),
      direction              |->
          IF ActualFemale(frame, disease) * 1000
                > TotalPotential(frame, disease) * EXPECTED_FEMALE_RATIO
          THEN "over-representation"
          ELSE IF ActualFemale(frame, disease) * 1000
                    < TotalPotential(frame, disease) * EXPECTED_FEMALE_RATIO
          THEN "under-representation"
          ELSE "equal" ]

\* the names bound at module level while __main__ runs: the imports of
\* lines 1-13 and the module's own definitions.  The "import json" of
\* run_exploratory_analysis binds a local name of that function only.
ModuleGlobals ==
    { "pd", "np", "requests", "time", "plt", "sns", "train_test_split",
      "LogisticRegression", "classification_report", "confusion_matrix", "re",
      "sm", "smf", "chi2_contingency", "df", "df_clean", "clean_data",
      "categorize_by_sex", "categorize_disease", "categorize_gii",
      "fetch_eligibility", "run_exploratory_analysis", "run_statistical_analysis",
      "analyze_sex_representation_equity", "fetch_eligibility_data" }

\* the text json.dump(obj, f, indent=4) writes
JSONText(obj) == <<"JSON", obj>>

\* no file of that name
NoJSONFile == <<"no file">>

\* a file that open(..., 'w') has created or truncated
EmptyFile == <<"empty file">>

\* with open(path, 'w') as f: json.dump(equity_results, f, indent=4)
\* <<the file afterwards, the exception raised ("none": none)>>
DumpTo(file, obj, open_fails) ==
    IF open_fails THEN <<file, "FileNotFoundError">>
    ELSE IF "json" \notin ModuleGlobals THEN <<EmptyFile, "NameError">>
    ELSE <<JSONText(obj), "none">>

(***************************************************************************)
(* starter.py: fetch_eligibility, fetch_eligibility_data                   *)
(***************************************************************************)
\* what the registry can answer to one request
Responses == {"connection error", "not JSON", "no study", "no criteria", "criteria"}

\* the eligibility text of a trial whose record holds one
CriteriaOf(nct_id) == <<"c","r","i","t","e","r","i","a"," ","o","f"," ">> \o nct_id

\* fetch_eligibility: every exception is caught and answered with ""
fetch_eligibility(nct_id, response) ==
    IF response = "criteria" THEN CriteriaOf(nct_id)
    ELSE <<>>

\* Series.dropna()
RECURSIVE dropna(_)
dropna(xs) ==
    IF xs = <<>> THEN <<>>
    ELSE (IF Head(xs) = NaN THEN <<>> ELSE <<Head(xs)>>) \o dropna(Tail(xs))

\* a faulty variant: the ids are not reduced to the distinct ones
SelectedIdsRepeated(frame, n) ==
    IF Len(dropna(frame)) > n THEN SubSeq(dropna(frame), 1, n) ELSE dropna(frame)

\* nct_ids: df["NCT Number_trial"].dropna().unique(), limited to n_trials
SelectedIds(frame, n) ==
    LET ids == unique(dropna(frame))
    IN  IF Len(ids) > n THEN SubSeq(ids, 1, n) ELSE ids

\* time.sleep(0.5), in milliseconds
RespectfulDelay == 500

\* pd.merge(df, eligibility_df, on="NCT Number_trial", how="left"): every row
\* of df with the text of its id, NaN when eligibility_df has no row for it
Merged(frame, texts) ==
    [ i \in 1..Len(frame) |->
        [ nct_id |-> frame[i],
          criteria |->
            IF \E k \in 1..Len(texts) : texts[k].nct_id = frame[i]
            THEN texts[CHOOSE k \in 1..Len(texts) : texts[k].nct_id = frame[i]].criteria
            ELSE NaN ] ]

(***************************************************************************)
(* starter.py: clean_data and the derived columns                          *)
(* A cell of the CSV file is its text, or NaN when it is empty.  A float   *)
(* is a record: nan tells whether it is the float NaN, val is its value in *)
(* thousandths.  A threshold is kept in hundred-thousandths, so that the   *)
(* interpolation of quantile() stays exact.                                *)
(***************************************************************************)
FloatNaN == [nan |-> TRUE, val |-> 0]

Float(v) == [nan |-> FALSE, val |-> v]

\* Series.fillna(value) on one cell
fillna(cell, value) == IF cell = NaN THEN value ELSE cell

IsDigits(s) == s # <<>> /\ \A i \in 1..Len(s) : s[i] \in Digits

DigitValue(c) == CHOOSE d \in 0..9 : DigitChar(d) = c

\* the number that a text of digits writes
RECURSIVE int(_)
int(s) ==
    IF s = <<>> THEN 0
    ELSE 10 * int(SubSeq(s, 1, Len(s) - 1)) + DigitValue(s[Len(s)])

\* the thousandths written by at most three decimals
Thousandths(decimals) ==
    int(decimals \o [i \in 1..(3 - Len(decimals)) |-> "0"])

\* the float of the text whole "." decimals
ParseDecimal(whole, decimals) ==
    IF IsDigits(whole) /\ IsDigits(decimals) /\ Len(decimals) <= 3
    THEN Float(1000 * int(whole) + Thousandths(decimals))
    ELSE FloatNaN

\* pd.to_numeric(cell, errors='coerce') for the texts of the model: digits,
\* or digits "." one to three digits; any other text is not a number and
\* becomes NaN
to_numeric(cell) ==
    IF cell = NaN THEN FloatNaN
    ELSE IF In(<<".">>, cell)
    THEN ParseDecimal(SubSeq(cell, 1, Find(cell, <<".">>, 1) - 1),
                      SubSeq(cell, Find(cell, <<".">>, 1) + 1, Len(cell)))
    ELSE IF IsDigits(cell) THEN Float(1000 * int(cell))
    ELSE FloatNaN

\* the chain of tests on the value that str(phase_text).upper() gave
PhaseOfUpper(phase_text) ==
    IF In(<<"P","H","A","S","E"," ","1">>, phase_text) \/ In(<<"P","H","A","S","E"," ","I">>, phase_text) THEN "Phase 1"
    ELSE IF In(<<"P","H","A","S","E"," ","2">>, phase_text) \/ In(<<"P","H","A","S","E"," ","I","I">>, phase_text) THEN "Phase 2"
    ELSE IF In(<<"P","H","A","S","E"," ","3">>, phase_text) \/ In(<<"P","H","A","S","E"," ","I","I","I">>, phase_text) THEN "Phase 3"
    ELSE IF In(<<"P","H","A","S","E"," ","4">>, phase_text) \/ In(<<"P","H","A","S","E"," ","I","V">>, phase_text) THEN "Phase 4"
    ELSE IF In(<<"E","A","R","L","Y">>, phase_text) THEN "Early Phase"
    ELSE IF In(<<"N","O","T"," ","A","P","P","L","I","C","A","B","L","E">>, phase_text) THEN "Not Applicable"
    ELSE "Other"

standardize_phase(phase_text) ==
    IF phase_text = NaN \/ phase_text = <<"U","n","k","n","o","w","n">> THEN "Unknown"
    ELSE PhaseOfUpper(upper(phase_text))

Range(f) == { f[i] : i \in DOMAIN f }

\* the rows of a frame that satisfy keep, in order
RECURSIVE Rows(_, _)
Rows(frame, keep) ==
    IF frame = <<>> THEN <<>>
    ELSE (IF Head(frame) \in keep THEN <<Head(frame)>> ELSE <<>>)
         \o Rows(Tail(frame), keep)

\* df.copy() as read from the CSV file: every row carries its index label
Indexed(frame) ==
    [i \in 1..Len(frame) |-> [index |-> i] @@ frame[i]]

\* the fillna loop over 'Sex', 'Phases', 'Country'
Filled(frame) ==
    [i \in 1..Len(frame) |->
        [frame[i] EXCEPT !.Sex = fillna(@, <<"U","n","k","n","o","w","n">>),
                         !.Phases = fillna(@, <<"U","n","k","n","o","w","n">>),
                         !.Country = fillna(@, <<"U","n","k","n","o","w","n">>)]]

\* clean_df[clean_df['Country'].notna()], then the same for the index
NotNa(frame) ==
    Rows(Rows(frame, { row \in Range(frame) : row.Country # NaN }),
         { row \in Range(frame) : row.GII # NaN })

\* pd.to_numeric on the index column and the Standardized_Phase column
clean_data(frame) ==
    [i \in 1..Len(NotNa(Filled(Indexed(frame)))) |->
        [NotNa(Filled(Indexed(frame)))[i] EXCEPT !.GII = to_numeric(@)]
        @@ [Standardized_Phase |->
               standardize_phase(NotNa(Filled(Indexed(frame)))[i].Phases)]]

\* a faulty variant: every row gets the category of the first row
SexCategoryOfFirstRow(frame) ==
    [i \in 1..Len(frame) |->
        frame[i] @@ [Sex_Category |-> categorize_by_sex(frame[1].Sex)]]

\* df_clean['Sex_Category'] = df_clean['Sex'].apply(categorize_by_sex)
WithSexCategory(frame) ==
    [i \in 1..Len(frame) |->
        frame[i] @@ [Sex_Category |-> categorize_by_sex(frame[i].Sex)]]

\* df_clean['Disease_Category'] = df_clean['Conditions'].apply(categorize_disease)
WithDiseaseCategory(frame) ==
    [i \in 1..Len(frame) |->
        frame[i] @@ [Disease_Category |-> categorize_disease(frame[i].Conditions)]]

\* Series.dropna() of the index column: the values that are numbers
RECURSIVE gii_data(_)
gii_data(frame) ==
    IF frame = <<>> THEN <<>>
    ELSE (IF Head(frame).GII.nan THEN <<>> ELSE <<Head(frame).GII.val>>)
         \o gii_data(Tail(frame))

\* x put at its place in the ascending sequence xs
RECURSIVE Insert(_, _)
Insert(xs, x) ==
    IF xs = <<>> THEN <<x>>
    ELSE IF x <= Head(xs) THEN <<x>> \o xs
    ELSE <<Head(xs)>> \o Insert(Tail(xs), x)

RECURSIVE Sorted(_)
Sorted(xs) == IF xs = <<>> THEN <<>> ELSE Insert(Sorted(Tail(xs)), Head(xs))

\* linear interpolation at the position below + fraction/100 of the sorted
\* values (below counted from 0), times 100
Interpolated(xs, below, fraction) ==
    IF fraction = 0 THEN 100 * xs[below + 1]
    ELSE 100 * xs[below + 1] + fraction * (xs[below + 2] - xs[below + 1])

\* Series.quantile(q) for q = percent/100: NaN for an empty series
quantile(xs, percent) ==
    IF xs = <<>> THEN FloatNaN
    ELSE Float(Interpolated(Sorted(xs), (percent * (Len(xs) - 1)) \div 100,
                            (percent * (Len(xs) - 1)) % 100))

\* gii_value <= threshold on floats: False when the threshold is NaN
LessEqual(gii_value, threshold) ==
    ~threshold.nan /\ 100 * gii_value.val <= threshold.val

categorize_gii(gii_value, low_threshold, high_threshold) ==
    IF gii_value.nan THEN "Unknown"
    ELSE IF LessEqual(gii_value, low_threshold) THEN "Low GII"
    ELSE IF LessEqual(gii_value, high_threshold) THEN "Medium GII"
    ELSE "High GII"

\* low_threshold and high_threshold
Thresholds(frame) ==
    [low |-> quantile(gii_data(frame), 33), high |-> quantile(gii_data(frame), 67)]

\* df_clean['GII_Category'] = df_clean['Gender Inequality Index'].apply(categorize_gii)
WithGIICategory(frame, th) ==
    [i \in 1..Len(frame) |->
        frame[i] @@ [GII_Category |-> categorize_gii(frame[i].GII, th.low, th.high)]]

(***************************************************************************)
(* convert_to_jama_format.py run as a script (__main__)                    *)
(***************************************************************************)
VARIABLES
    manuscript_file,  \* text of manuscript/manuscript_equity_focus.md
    cover_file,       \* text of manuscript/cover_letter_equity.md
    faults,           \* the I/O operations that fail in this run
    pc,               \* position of the script
    content,          \* convert_to_jama_format: the text read
    sections,         \* convert_to_jama_format: the section map
    r,                \* the document being built, the log, the exception in flight
    files,            \* JAMA_submission/manuscript: the .docx files
    stdout,           \* what print() has written
    exit_code,        \* status of the process once it has ended
    stages,           \* the stages entered so far, in order
    \* starter.py run as a script, from the equity analysis on
    df_clean,         \* the cleaned dataset: rows [Disease_Category, Sex_Category]
    io_faults,        \* the open() calls that fail in this run
    pc_main,          \* position of the script
    diseases,         \* analyze_sex_representation_equity: categories still to analyse
    results,          \* analyze_sex_representation_equity: the dict being filled
    equity_results,   \* __main__: the dict returned
    json_files,       \* data/equity_analysis_results.json, equity_analysis_results.json
    printed,          \* what print() has written
    \* starter.py: fetch_eligibility_data
    df,               \* the column df["NCT Number_trial"]
    n_trials,         \* the limit on the number of trials
    pc_fetch,         \* position in fetch_eligibility_data
    nct_ids,          \* the ids still to query
    eligibility_texts,\* the list of entries built by the loop
    requests_made,    \* the requests made, in order: [nct_id, response]
    slept,            \* the delays taken, in order (milliseconds)
    df_with_eligibility, \* the value returned
    \* starter.py: categorize_disease applied to one value
    conditions,       \* the Conditions value
    category,         \* the category returned
    \* starter.py: categorize_by_sex applied to one value
    sex_value,        \* the Sex value
    sex_category,     \* the category returned
    \* starter.py run as a script twice, up to the derived columns
    csv,              \* csv[k]: the rows of the CSV file of run k
    frames,           \* frames[k]: df_clean of run k
    thresholds,       \* thresholds[k]: low_threshold and high_threshold of run k
    pc_clean,         \* pc_clean[k]: position of run k
    \* starter.py: calls of categorize_by_sex and categorize_disease
    dataset,          \* the rows [Sex, Conditions] that the calls take their values from
    calls,            \* the calls made, in order: [function, row, result]
    \* convert_to_jama_format.py: count_words on a text with and without emphasis
    phrase,           \* the text x
    around,           \* the text before x and the text after it
    word_counts,      \* count_words with x plain, x bold and x italic, in this order
    \* convert_to_jama_format.py: split_into_sections called on one text
    text,             \* the text handed to every call
    maps,             \* the section maps returned, in the order of the calls
    split_log,        \* the records logged by the calls
    \* starter.py: standardize_phase applied to one value
    phase_text,       \* the Phases value
    standardized_phase, \* the value returned
    \* create_jama_forms.py: main
    forms_dir,        \* JAMA_submission/forms: name -> the entry of that name
    dir_before,       \* the entries of the directory when main was called
    form_faults,      \* the file operations that fail in this run
    pc_forms,         \* position in main
    to_visit,         \* the names of os.listdir the clean-up loop has not visited
    authors_left,     \* the authors the loop has not reached
    created_files,    \* created_files
    forms_log,        \* the records logged, in order
    \* create_jama_tables.py: parse_markdown_table called on one text
    markdown_content, \* the text of the markdown table file
    table_data        \* the dict returned, once the call has returned

fmt_vars == <<manuscript_file, cover_file, faults, pc, content, sections, r,
              files, stdout, exit_code, stages>>

equity_vars == <<df_clean, io_faults, pc_main, diseases, results, equity_results,
                 json_files, printed>>

fetch_vars == <<df, n_trials, pc_fetch, nct_ids, eligibility_texts, requests_made,
                slept, df_with_eligibility>>

disease_vars == <<conditions, category>>

sex_vars == <<sex_value, sex_category>>

clean_vars == <<csv, frames, thresholds, pc_clean>>

calls_vars == <<dataset, calls>>

words_vars == <<phrase, around, word_counts>>

split_vars == <<text, maps, split_log>>

phase_vars == <<phase_text, standardized_phase>>

forms_vars == <<forms_dir, dir_before, form_faults, pc_forms, to_visit, authors_left, created_files, forms_log>>

table_vars == <<markdown_content, table_data>>

unit_vars == <<sex_vars, clean_vars, calls_vars, words_vars, split_vars, phase_vars, forms_vars, table_vars>>

starter_vars == <<equity_vars, fetch_vars, disease_vars, unit_vars>>

vars == <<fmt_vars, starter_vars>>

\* the value of a variable that the run has not assigned
Unset == "unset"

FetchIdle ==
    /\ df = <<>> /\ n_trials = 0 /\ pc_fetch = "not run" /\ nct_ids = <<>>
    /\ eligibility_texts = <<>> /\ requests_made = <<>> /\ slept = <<>>
    /\ df_with_eligibility = Unset

DiseaseIdle == conditions = NaN /\ category = Unset

EquityIdle ==
    /\ df_clean = <<>> /\ io_faults = {} /\ pc_main = "not run" /\ diseases = <<>>
    /\ results = <<>> /\ equity_results = Unset /\ json_files = <<>> /\ printed = <<>>

SexIdle == sex_value = NaN /\ sex_category = Unset

CleanIdle ==
    /\ csv = <<>> /\ frames = <<>> /\ thresholds = <<>> /\ pc_clean = <<>>

CallsIdle == dataset = <<>> /\ calls = <<>>

WordsIdle == phrase = <<>> /\ around = <<>> /\ word_counts = <<>>

SplitIdle == text = <<>> /\ maps = <<>> /\ split_log = <<>>

PhaseIdle == phase_text = NaN /\ standardized_phase = Unset

FormsIdle == 
    /\ forms_dir = <<>> /\ dir_before = <<>> /\ form_faults = {} /\ pc_forms = "not run"
    /\ to_visit = {} /\ authors_left = <<>> /\ created_files = <<>> /\ forms_log = <<>>

TableIdle == markdown_content = <<>> /\ table_data = <<>>

\* no function is applied on its own
UnitIdle == SexIdle /\ CleanIdle /\ CallsIdle /\ WordsIdle /\ SplitIdle /\ PhaseIdle /\ FormsIdle /\ TableIdle

\* starter.py is not run
StarterIdle == EquityIdle /\ FetchIdle /\ DiseaseIdle /\ UnitIdle

\* I/O operations that the environment can make fail (OSError)
Faults == {"mkdir", "read_manuscript", "save_manuscript",
           "read_cover", "read_authors", "save_cover"}

NoFile == "no file"
\* a manuscript_jama.docx left by an earlier run
OldFile == "file of an earlier run"

\* every concatenation of at most n fragments
Texts(fragments, n) ==
    { Concat(fs) : fs \in UNION { [1..k -> fragments] : k \in 0..n } }

\* manuscripts of printable characters following the heading conventions,
\* with the irregular cases: a subheading, an empty section, a level-3
\* heading that names a section, unlabelled abstract text
Fragments ==
    { <<"#"," ","T","\n">>,
      <<"#","#"," ","T","i","t","l","e"," ","P","a","g","e","\n","*","*","A","u","t","h","o","r","s","*","*",":"," ","N","^","1","^",","," ","M","\n">>,
      <<"#","#"," ","A","b","s","t","r","a","c","t","\n">>,
      <<"*","*","A","*","*",":"," ","x","\n","\n">>,
      <<"*","*","B","*","*",":"," ","*","y","*","\n","\n">>,
      <<"*","*","C","*","*",":","\n","\n">>,
      <<"z"," ","w","\n","\n">>,
      <<"#","#"," ","B","a","c","k","g","r","o","u","n","d","\n","i","\n">>,
      <<"#","#"," ","M","e","t","h","o","d","s","\n","m","\n","#","#","#"," ","S","\n","n","\n">>,
      <<"#","#"," ","R","e","s","u","l","t","s","\n">>,
      <<"#","#"," ","D","i","s","c","u","s","s","i","o","n","\n","d","\n","\n","e","\n">>,
      <<"#","#"," ","C","o","n","c","l","u","s","i","o","n","s","\n","c","\n">>,
      <<"#","#"," ","L","i","s","t"," ","o","f"," ","a","b","b","r","e","v","i","a","t","i","o","n","s","\n","G","\n">>,
      <<"#","#"," ","D","e","c","l","a","r","a","t","i","o","n","s","\n","\n","#","#","#"," ","E","\n","\n","e","\n","\n","#","#","#"," ","F","\n","\n","f","\n">>,
      <<"#","#"," ","R","e","f","e","r","e","n","c","e","s","\n","1"," ","a","\n","\n","2"," ","b","\n">>,
      <<"#","#","#"," ","A","b","s","t","r","a","c","t","\n","q","\n">> }

CoverLetters == { <<"T","o",":"," ","E","d","\n","J","A","M","A","\n","\n","R","e",":"," ","S","\n","\n","D","e","a","r"," ","E","d",",","\n","\n","W","e"," ","s","u","b","m","i","t",".","\n">> }

\* manuscripts and cover letters of the fault runs: some hold a form feed,
\* which python-docx refuses
FaultFragments ==
    { <<"#"," ","T","\n">>,
      <<"#"," ","T","\f","\n">>,
      <<"#","#"," ","T","i","t","l","e"," ","P","a","g","e","\n","*","*","A","u","t","h","o","r","s","*","*",":"," ","N","\n">>,
      <<"#","#"," ","A","b","s","t","r","a","c","t","\n","*","*","A","*","*",":"," ","x","\n","\n","*","*","B","*","*",":"," ","y","\n">>,
      <<"#","#"," ","A","b","s","t","r","a","c","t","\n","*","*","A","*","*",":"," ","x","\f","y","\n">>,
      <<"#","#"," ","A","b","s","t","r","a","c","t","\n","*","*","[","a","]","(","\f",")","*","*",":"," ","z","\n">>,
      <<"#","#"," ","M","e","t","h","o","d","s","\n","m","\n">>,
      <<"#","#"," ","M","e","t","h","o","d","s","\n","m","\f","n","\n">> }

FaultCoverLetters == { <<"T","o",":"," ","E","d","\n","\n","D","e","a","r"," ","E","d",",","\n">>, <<"D","e","a","r","\f","E","d",",","\n">> }

InitScript ==
    /\ pc = "main"
    /\ content = <<>>
    /\ sections = <<>>
    /\ r = NewRendering
    /\ stdout = <<>>
    /\ exit_code = "running"
    /\ stages = <<>>

\* the script run on a readable manuscript of printable text
Init ==
    /\ StarterIdle
    /\ manuscript_file \in Texts(Fragments, MaxFrags)
    /\ cover_file \in CoverLetters
    /\ faults = {}
    /\ files = [manuscript |-> NoFile, cover |-> NoFile]
    /\ InitScript

\* the script run with failing I/O operations and with texts python-docx refuses
InitFaults ==
    /\ StarterIdle
    /\ manuscript_file \in Texts(FaultFragments, MaxFaultFrags)
    /\ cover_file \in FaultCoverLetters
    /\ faults \in SUBSET Faults
    /\ Cardinality(faults) <= 1
    /\ files \in [manuscript : {NoFile, OldFile}, cover : {NoFile}]
    /\ InitScript

\* a faulty variant: the except clause logs the exception and does not re-raise
ConvertStageSwallowing(rNew, next) ==
    /\ r' = LogAndReraise(rNew, "Error converting document")
    /\ pc' = next

\* the end of a stage of convert_to_jama_format: its except clause logs and
\* re-raises to __main__, else the next stage follows
\* a faulty variant: the document is saved although a stage raised
ConvertStageSavingAnyway(rNew, next) ==
    /\ r' = LogAndReraise(rNew, "Error converting document")
    /\ pc' = IF rNew.exc = "none" THEN next
             ELSE IF next = "cover_letter" THEN "main_except"
             ELSE "save"

ConvertStage(rNew, next) ==
    /\ r' = LogAndReraise(rNew, "Error converting document")
    /\ pc' = IF rNew.exc = "none" THEN next ELSE "main_except"

Raise(rr, e) == [rr EXCEPT !.exc = e]

\* __main__ up to the call of convert_to_jama_format
StartMain ==
    /\ pc = "main"
    /\ IF "mkdir" \in faults
       THEN r' = Raise(r, "OSError") /\ pc' = "main_except"
       ELSE /\ r' = Logged(Logged(r, "INFO", "Starting JAMA document conversion"),
                           "INFO", "Converting manuscript...")
            /\ pc' = "read"
    /\ UNCHANGED <<manuscript_file, cover_file, faults, content, sections, files,
                   stdout, exit_code, stages>>
    /\ UNCHANGED starter_vars

\* os.makedirs, open(input_file).read()
ReadInput ==
    /\ pc = "read"
    /\ stages' = Append(stages, "read")
    /\ IF "read_manuscript" \in faults
       THEN content' = content /\ ConvertStage(Raise(r, "OSError"), "split")
       ELSE content' = manuscript_file /\ ConvertStage(r, "split")
    /\ UNCHANGED <<manuscript_file, cover_file, faults, sections, files, stdout, exit_code>>
    /\ UNCHANGED starter_vars

Split ==
    /\ pc = "split"
    /\ stages' = Append(stages, "split")
    /\ sections' = split_into_sections(content)
    /\ ConvertStage(Logged(r, "INFO", "Successfully extracted sections from manuscript"),
                    "page_numbers")
    /\ UNCHANGED <<manuscript_file, cover_file, faults, content, files, stdout, exit_code>>
    /\ UNCHANGED starter_vars

\* Document(), the page setup and add_page_numbers
PageNumbers ==
    /\ pc = "page_numbers"
    /\ stages' = Append(stages, "page_numbers")
    /\ ConvertStage(add_page_numbers([r EXCEPT !.doc = EmptyDoc]), "title_page")
    /\ UNCHANGED <<manuscript_file, cover_file, faults, content, sections, files,
                   stdout, exit_code>>
    /\ UNCHANGED starter_vars

TitlePage ==
    /\ pc = "title_page"
    /\ stages' = Append(stages, "title_page")
    /\ ConvertStage(process_title_page(r, sections), "abstract_page")
    /\ UNCHANGED <<manuscript_file, cover_file, faults, content, sections, files,
                   stdout, exit_code>>
    /\ UNCHANGED starter_vars

AbstractPage ==
    /\ pc = "abstract_page"
    /\ stages' = Append(stages, "abstract_page")
    /\ ConvertStage(process_abstract_page(r, sections), "paragraphs")
    /\ UNCHANGED <<manuscript_file, cover_file, faults, content, sections, files,
                   stdout, exit_code>>
    /\ UNCHANGED starter_vars

Paragraphs ==
    /\ pc = "paragraphs"
    /\ stages' = Append(stages, "paragraphs")
    /\ ConvertStage(process_paragraphs(r, sections), "save")
    /\ UNCHANGED <<manuscript_file, cover_file, faults, content, sections, files,
                   stdout, exit_code>>
    /\ UNCHANGED starter_vars

\* doc.save(output_file), the return to __main__ and its print
Save ==
    /\ pc = "save"
    /\ stages' = Append(stages, "save")
    /\ IF "save_manuscript" \in faults
       THEN /\ ConvertStage(Raise(r, "OSError"), "cover_letter")
            /\ UNCHANGED <<files, stdout>>
       ELSE /\ files' = [files EXCEPT !.manuscript = r.doc]
            /\ stdout' = Append(stdout, "Successfully created JAMA-formatted manuscript")
            /\ ConvertStage(Logged(Logged(r, "INFO", "Document successfully converted and saved"),
                                   "INFO", "Converting cover letter..."),
                            "cover_letter")
    /\ UNCHANGED <<manuscript_file, cover_file, faults, content, sections, exit_code>>
    /\ UNCHANGED starter_vars

\* convert_cover_letter, which logs and re-raises on its own, and the print
CoverLetter ==
    /\ pc = "cover_letter"
    /\ stages' = Append(stages, "cover_letter")
    /\ r' = convert_cover_letter(r, faults, cover_file, manuscript_file)
    /\ IF r'.exc = "none"
       THEN /\ files' = [files EXCEPT !.cover = r'.doc]
            /\ stdout' = Append(stdout, "Successfully created JAMA-formatted cover letter")
            /\ pc' = "main_done"
       ELSE /\ UNCHANGED <<files, stdout>>
            /\ pc' = "main_except"
    /\ UNCHANGED <<manuscript_file, cover_file, faults, content, sections, exit_code>>
    /\ UNCHANGED starter_vars

\* the end of __main__: the last log record, or the except clause with its
\* log record, its print and sys.exit(1)
Finish ==
    /\ pc \in {"main_done", "main_except"}
    /\ pc' = "exited"
    /\ IF r.exc = "none"
       THEN /\ r' = Logged(r, "INFO", "All documents converted successfully")
            /\ exit_code' = 0
            /\ stdout' = stdout
       ELSE /\ r' = LogAndReraise(r, "Script execution failed")
            /\ exit_code' = 1
            /\ stdout' = Append(stdout, "Error")
    /\ UNCHANGED <<manuscript_file, cover_file, faults, content, sections, files, stages>>
    /\ UNCHANGED starter_vars

Next ==
    \/ StartMain \/ ReadInput \/ Split \/ PageNumbers \/ TitlePage
    \/ AbstractPage \/ Paragraphs \/ Save \/ CoverLetter \/ Finish

Spec == Init /\ [][Next]_vars

SpecFaults == InitFaults /\ [][Next]_vars

(***************************************************************************)
(* starter.py run as a script (__main__), from the equity analysis on      *)
(***************************************************************************)
\* convert_to_jama_format.py is not run
FormatterIdle ==
    /\ manuscript_file = <<>> /\ cover_file = <<>> /\ faults = {}
    /\ files = [manuscript |-> NoFile, cover |-> NoFile]
    /\ pc = "not run" /\ content = <<>> /\ sections = <<>> /\ r = NewRendering
    /\ stdout = <<>> /\ exit_code = "running" /\ stages = <<>>

\* the values of Disease_Category and Sex_Category in the model's datasets
DiseasePool == {"Cancer", "Other"}

SexCategories == {"Both Sexes", "Female Only", "Male Only", "Unknown"}

\* every sequence of at most n elements of S
SeqsUpTo(S, n) == UNION { [1..k -> S] : k \in 0..n }

\* equity_analysis_results.json left by an earlier run
OldJSON == <<"results of an earlier run">>

\* the script at the call of analyze_sex_representation_equity, after
\* run_exploratory_analysis and run_statistical_analysis have returned
InitEquity ==
    /\ FormatterIdle /\ FetchIdle /\ DiseaseIdle /\ UnitIdle
    /\ df_clean \in SeqsUpTo([Disease_Category : DiseasePool,
                               Sex_Category : SexCategories], MaxTrials)
    /\ io_faults \in SUBSET {"open_data", "open_alt"}
    /\ pc_main = "call"
    /\ diseases = <<>>
    /\ results = <<>>
    /\ equity_results = Unset
    /\ json_files \in [data : {NoJSONFile, OldJSON}, alt : {NoJSONFile, OldJSON}]
    /\ printed = <<>>

\* the call: results = {} and the iterator over the unique disease categories
CallAnalysis ==
    /\ pc_main = "call"
    /\ pc_main' = "loop"
    /\ diseases' = unique(DiseaseColumn(df_clean))
    /\ results' = <<>>
    /\ printed' = Append(printed, "=== Sex Representation Equity Analysis ===")
    /\ UNCHANGED <<df_clean, io_faults, equity_results, json_files>>
    /\ UNCHANGED <<fmt_vars, fetch_vars, disease_vars, unit_vars>>

\* one pass of the for loop; an exception leaves the function and, uncaught
\* in __main__, ends the script with a traceback
AnalyzeCategory ==
    /\ pc_main = "loop"
    /\ diseases # <<>>
    /\ \E chi2 \in chi2_contingency(ContingencyTable(df_clean, Head(diseases))) :
          IF CategoryException(df_clean, Head(diseases), chi2) = "none"
          THEN /\ results' = results @@
                     (Head(diseases) :> CategoryResult(df_clean, Head(diseases)))
               /\ diseases' = Tail(diseases)
               /\ pc_main' = "loop"
               /\ printed' = printed
          ELSE /\ pc_main' = "crashed"
               /\ printed' = Append(printed,
                                    CategoryException(df_clean, Head(diseases), chi2))
               /\ UNCHANGED <<results, diseases>>
    /\ UNCHANGED <<df_clean, io_faults, equity_results, json_files>>
    /\ UNCHANGED <<fmt_vars, fetch_vars, disease_vars, unit_vars>>

\* return results
ReturnResults ==
    /\ pc_main = "loop"
    /\ diseases = <<>>
    /\ equity_results' = results
    /\ pc_main' = "print"
    /\ UNCHANGED <<df_clean, io_faults, diseases, results, json_files, printed>>
    /\ UNCHANGED <<fmt_vars, fetch_vars, disease_vars, unit_vars>>

\* the for loop that prints the results
PrintResults ==
    /\ pc_main = "print"
    /\ pc_main' = "save"
    /\ printed' = printed \o [i \in 1..Len(unique(DiseaseColumn(df_clean))) |->
                                 <<"Disease", unique(DiseaseColumn(df_clean))[i]>>]
    /\ UNCHANGED <<df_clean, io_faults, diseases, results, equity_results, json_files>>
    /\ UNCHANGED <<fmt_vars, fetch_vars, disease_vars, unit_vars>>

\* the outer try: data/equity_analysis_results.json
SavePrimary ==
    /\ pc_main = "save"
    /\ json_files' = [json_files EXCEPT
                        !.data = DumpTo(@, equity_results, "open_data" \in io_faults)[1]]
    /\ IF DumpTo(json_files.data, equity_results, "open_data" \in io_faults)[2] = "none"
       THEN /\ printed' = Append(printed, "Equity analysis results saved to data/equity_analysis_results.json")
            /\ pc_main' = "fetch"
       ELSE /\ printed' = Append(printed, "Error saving equity analysis results")
            /\ pc_main' = "save_alternative"
    /\ UNCHANGED <<df_clean, io_faults, diseases, results, equity_results>>
    /\ UNCHANGED <<fmt_vars, fetch_vars, disease_vars, unit_vars>>

\* the except clause's own try: equity_analysis_results.json
SaveAlternative ==
    /\ pc_main = "save_alternative"
    /\ json_files' = [json_files EXCEPT
                        !.alt = DumpTo(@, equity_results, "open_alt" \in io_faults)[1]]
    /\ printed' = Append(printed,
            IF DumpTo(json_files.alt, equity_results, "open_alt" \in io_faults)[2] = "none"
            THEN "Equity analysis results saved to equity_analysis_results.json"
            ELSE "Could not save equity results")
    /\ pc_main' = "fetch"
    /\ UNCHANGED <<df_clean, io_faults, diseases, results, equity_results>>
    /\ UNCHANGED <<fmt_vars, fetch_vars, disease_vars, unit_vars>>

\* the rest of __main__: fetch_eligibility_data and the two to_csv calls,
\* which read df_clean and write the CSV files
RestOfMain ==
    /\ pc_main = "fetch"
    /\ pc_main' \in {"done", "crashed"}
    /\ printed' = Append(printed, "Fetching eligibility criteria")
    /\ UNCHANGED <<df_clean, io_faults, diseases, results, equity_results, json_files>>
    /\ UNCHANGED <<fmt_vars, fetch_vars, disease_vars, unit_vars>>

NextEquity ==
    \/ CallAnalysis \/ AnalyzeCategory \/ ReturnResults \/ PrintResults
    \/ SavePrimary \/ SaveAlternative \/ RestOfMain

SpecEquity == InitEquity /\ [][NextEquity]_vars

(***************************************************************************)
(* starter.py: fetch_eligibility_data called on a dataset                  *)
(***************************************************************************)
\* the values of the column NCT Number_trial in the model's datasets
IdPool == {<<"N","C","T","0","1">>, <<"N","C","T","0","2">>, NaN}

InitFetch ==
    /\ FormatterIdle /\ EquityIdle /\ DiseaseIdle /\ UnitIdle
    /\ df \in SeqsUpTo(IdPool, MaxRows)
    /\ n_trials \in 0..MaxNTrials
    /\ pc_fetch = "begin"
    /\ nct_ids = <<>>
    /\ eligibility_texts = <<>>
    /\ requests_made = <<>>
    /\ slept = <<>>
    /\ df_with_eligibility = Unset

\* the ids are selected and the list of entries starts empty
FetchBegin ==
    /\ pc_fetch = "begin"
    /\ pc_fetch' = "loop"
    /\ nct_ids' = SelectedIds(df, n_trials)
    /\ eligibility_texts' = <<>>
    /\ UNCHANGED <<df, n_trials, requests_made, slept, df_with_eligibility>>
    /\ UNCHANGED <<fmt_vars, equity_vars, disease_vars, unit_vars>>

\* one pass of the for loop: the request, the entry, the delay
FetchOne ==
    /\ pc_fetch = "loop"
    /\ nct_ids # <<>>
    /\ \E response \in Responses :
          /\ requests_made' = Append(requests_made,
                [nct_id |-> Head(nct_ids), response |-> response])
          /\ eligibility_texts' = Append(eligibility_texts,
                [nct_id |-> Head(nct_ids),
                 criteria |-> fetch_eligibility(Head(nct_ids), response)])
    /\ slept' = Append(slept, RespectfulDelay)
    /\ nct_ids' = Tail(nct_ids)
    /\ UNCHANGED <<df, n_trials, pc_fetch, df_with_eligibility>>
    /\ UNCHANGED <<fmt_vars, equity_vars, disease_vars, unit_vars>>

\* pd.DataFrame(eligibility_texts) and pd.merge: a DataFrame made of no
\* entries has no column NCT Number_trial, and the merge raises KeyError
FetchMerge ==
    /\ pc_fetch = "loop"
    /\ nct_ids = <<>>
    /\ IF eligibility_texts = <<>>
       THEN pc_fetch' = "raised" /\ df_with_eligibility' = df_with_eligibility
       ELSE pc_fetch' = "returned"
            /\ df_with_eligibility' = Merged(df, eligibility_texts)
    /\ UNCHANGED <<df, n_trials, nct_ids, eligibility_texts, requests_made, slept>>
    /\ UNCHANGED <<fmt_vars, equity_vars, disease_vars, unit_vars>>

NextFetch == FetchBegin \/ FetchOne \/ FetchMerge

SpecFetch == InitFetch /\ [][NextFetch]_vars

(***************************************************************************)
(* starter.py: categorize_disease applied to one Conditions value          *)
(***************************************************************************)
\* Conditions values are made of these fragments: keywords of several
\* categories in upper, lower and mixed case, and words that hold none
ConditionFragments ==
    { <<"c","o","v","i","d"," ">>, <<"C","o","r","o","n","a"," ","V","i","r","u","s"," ">>, <<"H","I","V"," ">>, <<"h","e","a","r","i","n","g"," ","a","i","d","s"," ">>, <<"L","y","m","p","h","o","m","a"," ">>,
      <<"h","e","a","r","t"," ">>, <<"D","i","a","b","e","t","i","c"," ">>, <<"m","e","n","t","a","l"," ">>, <<"L","U","N","G"," ">>, <<"V","i","r","a","l"," ">>, <<"f","l","u"," ">>,
      <<"o","b","e","s","i","t","y"," ">> }

InitDisease ==
    /\ FormatterIdle /\ EquityIdle /\ FetchIdle /\ UnitIdle
    /\ conditions \in {NaN} \cup Texts(ConditionFragments, MaxWords)
    /\ category = Unset

\* df_clean['Conditions'].apply(categorize_disease) on one value
Categorize ==
    /\ category = Unset
    /\ category' = categorize_disease(conditions)
    /\ UNCHANGED conditions
    /\ UNCHANGED <<fmt_vars, equity_vars, fetch_vars, unit_vars>>

NextDisease == Categorize

SpecDisease == InitDisease /\ [][NextDisease]_vars

(***************************************************************************)
(* starter.py: categorize_by_sex applied to one Sex value                  *)
(***************************************************************************)
\* Sex values are made of these fragments: the exact values in several
\* cases, the filler of clean_data, and pieces that extend a value
SexFragments ==
    { <<"F","e","m","a","l","e">>, <<"F","E","M","A","L","E">>, <<"M","a","l","e">>, <<"m","a","l","e">>, <<"F">>, <<"m">>, <<"A","l","l">>, <<"A","L","L">>,
      <<"U","n","k","n","o","w","n">>, <<"F","e","m","a","l","e",","," ">>, <<"s">>, <<"B","o","t","h">> }

InitSex ==
    /\ FormatterIdle /\ EquityIdle /\ FetchIdle /\ DiseaseIdle /\ CleanIdle /\ CallsIdle /\ WordsIdle /\ SplitIdle /\ PhaseIdle /\ FormsIdle /\ TableIdle
    /\ sex_value \in {NaN} \cup Texts(SexFragments, MaxWords)
    /\ sex_category = Unset

\* df_clean['Sex'].apply(categorize_by_sex) on one value
CategorizeSex ==
    /\ sex_category = Unset
    /\ sex_category' = categorize_by_sex(sex_value)
    /\ UNCHANGED sex_value
    /\ UNCHANGED <<fmt_vars, equity_vars, fetch_vars, disease_vars, clean_vars, calls_vars, words_vars, split_vars, phase_vars, forms_vars, table_vars>>

NextSex == CategorizeSex

SpecSex == InitSex /\ [][NextSex]_vars

(***************************************************************************)
(* starter.py run as a script on two CSV files, one run after the other,   *)
(* from clean_data to the GII_Category column                              *)
(***************************************************************************)
Runs == {1, 2}

\* the rows of the CSV files: three indices, an index that is not a number,
\* a missing index, and missing values in the other columns
CsvRows ==
    { [Sex |-> <<"F","e","m","a","l","e">>, Phases |-> <<"P","h","a","s","e"," ","2">>, Country |-> <<"X">>,
       Conditions |-> <<"H","I","V">>, GII |-> <<"0",".","1">>],
      [Sex |-> <<"A","l","l">>, Phases |-> NaN, Country |-> NaN,
       Conditions |-> NaN, GII |-> <<"0",".","5">>],
      [Sex |-> NaN, Phases |-> <<"E","a","r","l","y"," ","P","h","a","s","e"," ","1">>, Country |-> <<"Y">>,
       Conditions |-> <<"f","l","u">>, GII |-> <<"0",".","9","5">>],
      [Sex |-> <<"M","a","l","e">>, Phases |-> <<"N","A">>, Country |-> <<"Z">>,
       Conditions |-> <<"A","s","t","h","m","a">>, GII |-> <<".",".">>],
      [Sex |-> <<"F","e","m","a","l","e">>, Phases |-> <<"P","h","a","s","e"," ","2">>, Country |-> <<"X">>,
       Conditions |-> <<"H","I","V">>, GII |-> NaN] }

InitClean ==
    /\ FormatterIdle /\ EquityIdle /\ FetchIdle /\ DiseaseIdle /\ SexIdle /\ CallsIdle /\ WordsIdle /\ SplitIdle /\ PhaseIdle /\ FormsIdle /\ TableIdle
    /\ csv \in [Runs -> SeqsUpTo(CsvRows, MaxRecords)]
    /\ frames = [k \in Runs |-> <<>>]
    /\ thresholds = [k \in Runs |-> Unset]
    /\ pc_clean = [k \in Runs |-> "clean_data"]

\* run k is at the statement named at, the run before it has ended
At(k, at) ==
    /\ pc_clean[k] = at
    /\ \A j \in Runs : j < k => pc_clean[j] = "done"

\* df_clean = clean_data(df)
CleanData ==
    \E k \in Runs :
        /\ At(k, "clean_data")
        /\ frames' = [frames EXCEPT ![k] = clean_data(csv[k])]
        /\ pc_clean' = [pc_clean EXCEPT ![k] = "sex"]
        /\ UNCHANGED <<csv, thresholds>>
        /\ UNCHANGED <<fmt_vars, equity_vars, fetch_vars, disease_vars, sex_vars, calls_vars, words_vars, split_vars, phase_vars, forms_vars, table_vars>>

ApplySex ==
    \E k \in Runs :
        /\ At(k, "sex")
        /\ frames' = [frames EXCEPT ![k] = WithSexCategory(@)]
        /\ pc_clean' = [pc_clean EXCEPT ![k] = "disease"]
        /\ UNCHANGED <<csv, thresholds>>
        /\ UNCHANGED <<fmt_vars, equity_vars, fetch_vars, disease_vars, sex_vars, calls_vars, words_vars, split_vars, phase_vars, forms_vars, table_vars>>

ApplyDisease ==
    \E k \in Runs :
        /\ At(k, "disease")
        /\ frames' = [frames EXCEPT ![k] = WithDiseaseCategory(@)]
        /\ pc_clean' = [pc_clean EXCEPT ![k] = "gii"]
        /\ UNCHANGED <<csv, thresholds>>
        /\ UNCHANGED <<fmt_vars, equity_vars, fetch_vars, disease_vars, sex_vars, calls_vars, words_vars, split_vars, phase_vars, forms_vars, table_vars>>

\* the thresholds of the run and the GII_Category column
ApplyGII ==
    \E k \in Runs :
        /\ At(k, "gii")
        /\ thresholds' = [thresholds EXCEPT ![k] = Thresholds(frames[k])]
        /\ frames' = [frames EXCEPT ![k] = WithGIICategory(@, Thresholds(frames[k]))]
        /\ pc_clean' = [pc_clean EXCEPT ![k] = "done"]
        /\ UNCHANGED csv
        /\ UNCHANGED <<fmt_vars, equity_vars, fetch_vars, disease_vars, sex_vars, calls_vars, words_vars, split_vars, phase_vars, forms_vars, table_vars>>

NextClean == CleanData \/ ApplySex \/ ApplyDisease \/ ApplyGII

SpecClean == InitClean /\ [][NextClean]_vars

(***************************************************************************)
(* starter.py: categorize_by_sex and categorize_disease called on the      *)
(* values of a dataset, in any order and any number of times               *)
(***************************************************************************)
CallRows ==
    { [Sex |-> <<"F","e","m","a","l","e">>, Conditions |-> <<"H","I","V">>],
      [Sex |-> <<"F","e","m","a","l","e">>, Conditions |-> <<"f","l","u">>],
      [Sex |-> NaN, Conditions |-> NaN] }

InitCalls ==
    /\ FormatterIdle /\ EquityIdle /\ FetchIdle /\ DiseaseIdle /\ SexIdle /\ CleanIdle /\ WordsIdle /\ SplitIdle /\ PhaseIdle /\ FormsIdle /\ TableIdle
    /\ dataset \in SeqsUpTo(CallRows, MaxRecords)
    /\ calls = <<>>

\* a faulty variant: the function keeps the value of the call before in a
\* global name and categorises that value
ReturnedRemembering(function, value) ==
    IF calls # <<>> /\ calls[Len(calls)].function = function
    THEN IF function = "categorize_by_sex"
         THEN categorize_by_sex(dataset[calls[Len(calls)].row].Sex)
         ELSE categorize_disease(dataset[calls[Len(calls)].row].Conditions)
    ELSE IF function = "categorize_by_sex" THEN categorize_by_sex(value)
    ELSE categorize_disease(value)

\* the value returned by the call function(value): both functions read their
\* parameter and their own local names only
Returned(function, value) ==
    IF function = "categorize_by_sex" THEN categorize_by_sex(value)
    ELSE categorize_disease(value)

\* categorize_by_sex(dataset[row].Sex); the assignment to sex_value inside
\* the function binds its local name
CallSex ==
    /\ Len(calls) < MaxCalls
    /\ \E row \in 1..Len(dataset) :
          calls' = Append(calls, [function |-> "categorize_by_sex", row |-> row,
                                  result |-> Returned("categorize_by_sex", dataset[row].Sex)])
    /\ UNCHANGED dataset
    /\ UNCHANGED <<fmt_vars, equity_vars, fetch_vars, disease_vars, sex_vars, clean_vars, words_vars, split_vars, phase_vars, forms_vars, table_vars>>

\* categorize_disease(dataset[row].Conditions)
CallDisease ==
    /\ Len(calls) < MaxCalls
    /\ \E row \in 1..Len(dataset) :
          calls' = Append(calls, [function |-> "categorize_disease", row |-> row,
                                  result |-> Returned("categorize_disease",
                                                      dataset[row].Conditions)])
    /\ UNCHANGED dataset
    /\ UNCHANGED <<fmt_vars, equity_vars, fetch_vars, disease_vars, sex_vars, clean_vars, words_vars, split_vars, phase_vars, forms_vars, table_vars>>

NextCalls == CallSex \/ CallDisease

SpecCalls == InitCalls /\ [][NextCalls]_vars

(***************************************************************************)
(* convert_to_jama_format.py: count_words applied to a text in which x is  *)
(* plain, bold and italic                                                  *)
(***************************************************************************)
Words == { <<"a">>, <<"b","c">> }

\* one word or several words, separated by a space or a line break
RECURSIVE Phrases(_)
Phrases(n) ==
    IF n = 1 THEN Words
    ELSE Phrases(n - 1)
         \cup { x \o sep \o w : x \in Phrases(n - 1), sep \in {<<" ">>, <<"\n">>}, w \in Words }

\* the text before x and the text after it: nothing, a word, a word on
\* another line, a word joined to x, another emphasised word, the bullet of
\* a list item
Before == { <<>>, <<"p"," ">>, <<"p">>, <<"p","\n">>, <<"*","e","*"," ">>, <<"*","*","b","*","*">>, <<"*"," ">>, <<"-"," ">> }

After == { <<>>, <<" ","q">>, <<"q">>, <<"\n","q">>, <<" ","*","e","*">>, <<"*","*","b","*","*">> }

InitWords ==
    /\ FormatterIdle /\ EquityIdle /\ FetchIdle /\ DiseaseIdle
    /\ SexIdle /\ CleanIdle /\ CallsIdle /\ SplitIdle /\ PhaseIdle /\ FormsIdle /\ TableIdle
    /\ phrase \in Phrases(MaxWords)
    /\ around \in Before \X After
    /\ word_counts = <<>>

CountWords ==
    /\ word_counts = <<>>
    /\ word_counts' =
          << count_words(around[1] \o phrase \o around[2]),
             count_words(around[1] \o <<"*","*">> \o phrase \o <<"*","*">> \o around[2]),
             count_words(around[1] \o <<"*">> \o phrase \o <<"*">> \o around[2]) >>
    /\ UNCHANGED <<phrase, around>>
    /\ UNCHANGED <<fmt_vars, equity_vars, fetch_vars, disease_vars, sex_vars,
                   clean_vars, calls_vars, split_vars, phase_vars, forms_vars, table_vars>>

NextWords == CountWords

SpecWords == InitWords /\ [][NextWords]_vars

(***************************************************************************)
(* convert_to_jama_format.py: split_into_sections called several times on  *)
(* one text                                                                *)
(***************************************************************************)
InitSplit ==
    /\ FormatterIdle /\ EquityIdle /\ FetchIdle /\ DiseaseIdle
    /\ SexIdle /\ CleanIdle /\ CallsIdle /\ WordsIdle /\ PhaseIdle /\ FormsIdle /\ TableIdle
    /\ text \in Texts(Fragments, MaxSplitFrags)
    /\ maps = <<>>
    /\ split_log = <<>>

\* a faulty variant: the patterns are consumed by the first call, a later
\* call finds the title only
SectionsOfFirstCall(markdown) ==
    IF maps = <<>> THEN split_into_sections(markdown)
    ELSE [n \in DOMAIN split_into_sections(markdown) \cap {"title"} |->
             split_into_sections(markdown)[n]]

\* the dict returned by the call split_into_sections(markdown): sections and
\* section_patterns are local names, bound anew in every call
Sections(markdown) == split_into_sections(markdown)

\* one call; a str is immutable, the call leaves content as it is
SplitAgain ==
    /\ Len(maps) < MaxSplits
    /\ maps' = Append(maps, Sections(text))
    /\ split_log' = Append(split_log,
                           <<"INFO", "Successfully extracted sections from manuscript">>)
    /\ UNCHANGED text
    /\ UNCHANGED <<fmt_vars, equity_vars, fetch_vars, disease_vars, sex_vars,
                   clean_vars, calls_vars, words_vars, phase_vars, forms_vars, table_vars>>

NextSplit == SplitAgain

SpecSplit == InitSplit /\ [][NextSplit]_vars

\* ---------------------------------------------------------------------
\* standardize_phase applied to one value of the Phases column

\* the phase texts: an optional 'Early ', the word in three spellings, the
\* number as an Arabic or a Roman numeral, an optional second phase
PhaseTexts ==
    { prefix \o word \o numeral \o suffix :
        prefix \in { <<>>, <<"E","a","r","l","y"," ">> },
        word \in { <<"P","h","a","s","e"," ">>, <<"P","H","A","S","E"," ">>, <<"p","h","a","s","e"," ">> },
        numeral \in { <<"1">>, <<"2">>, <<"3">>, <<"4">>, <<"I">>, <<"I","I">>, <<"I","I","I">>, <<"I","V">> },
        suffix \in { <<>>, <<"/","P","h","a","s","e"," ","3">> } }
    \cup { <<"U","n","k","n","o","w","n">>, <<"u","n","k","n","o","w","n">>, <<"N","o","t"," ","A","p","p","l","i","c","a","b","l","e">>, <<"N","O","T"," ","A","P","P","L","I","C","A","B","L","E">>, <<"N","A">>,
           <<"E","a","r","l","y"," ","P","h","a","s","e">>, <<"O","b","s","e","r","v","a","t","i","o","n","a","l">>, <<>> }

InitPhase ==
    /\ FormatterIdle /\ EquityIdle /\ FetchIdle /\ DiseaseIdle
    /\ SexIdle /\ CleanIdle /\ CallsIdle /\ WordsIdle /\ SplitIdle /\ FormsIdle /\ TableIdle
    /\ phase_text \in {NaN} \cup PhaseTexts
    /\ standardized_phase = Unset

\* clean_df['Phases'].apply(standardize_phase) on one value
StandardizePhase ==
    /\ standardized_phase = Unset
    /\ standardized_phase' = standardize_phase(phase_text)
    /\ UNCHANGED phase_text
    /\ UNCHANGED <<fmt_vars, equity_vars, fetch_vars, disease_vars, sex_vars, clean_vars, calls_vars, words_vars, split_vars, forms_vars, table_vars>>

NextPhase == StandardizePhase

SpecPhase == InitPhase /\ [][NextPhase]_vars

\* ---------------------------------------------------------------------
\* create_jama_forms.py: main

authors ==
    << [name |-> <<"J","a","n","e"," ","D","."," ","R","e","s","e","a","r","c","h","e","r">>], [name |-> <<"A","l","e","x"," ","L","."," ","S","c","i","e","n","t","i","s","t">>],
       [name |-> <<"M","o","r","g","a","n"," ","T","."," ","A","n","a","l","y","s","t">>] >>

\* the places where a whitespace-delimited word of s begins
WordStarts(s) ==
    { i \in 1..Len(s) : s[i] \notin Whitespace /\ (i = 1 \/ s[i - 1] \in Whitespace) }

\* author['name'].split()[-1]
LastName(name) ==
    SubSeq(name, CHOOSE i \in WordStarts(name) : \A j \in WordStarts(name) : j <= i,
           RSkipWs(name, Len(name)))

\* file.endswith('.docx')
endswith(file, suffix) ==
    /\ Len(file) >= Len(suffix)
    /\ SubSeq(file, Len(file) - Len(suffix) + 1, Len(file)) = suffix

contribution_file(author) == <<"a","u","t","h","o","r","_","c","o","n","t","r","i","b","u","t","i","o","n","_">> \o LastName(author.name) \o <<".","d","o","c","x">>

disclosure_file(author) == <<"i","c","m","j","e","_","d","i","s","c","l","o","s","u","r","e","_">> \o LastName(author.name) \o <<".","d","o","c","x">>

copyright_file == <<"c","o","p","y","r","i","g","h","t","_","t","r","a","n","s","f","e","r","_","a","g","r","e","e","m","e","n","t",".","d","o","c","x">>

expected_files ==
    { contribution_file(authors[i]) : i \in 1..Len(authors) }
    \cup { disclosure_file(authors[i]) : i \in 1..Len(authors) }
    \cup { copyright_file }

\* a faulty variant: only the missing files are looked for
FilesVerifiedMissingOnly(expected, actual) == expected \subseteq actual

\* expected_files != actual_files is false
FilesVerified(expected, actual) == expected = actual

\* the directory with the file of that name written anew
Saved(directory, file) ==
    [f \in DOMAIN directory \cup {file} |-> IF f = file THEN "new" ELSE directory[f]]

\* the directory without the entry of that name
Removed(directory, file) == [f \in DOMAIN directory \ {file} |-> directory[f]]

FormRecord(level, msg, arg) == [level |-> level, msg |-> msg, arg |-> arg]

\* the entries the directory may hold before the run: forms of an earlier
\* run, another document, a file that is no document, a directory
DirPool ==
    { <<<<"a","u","t","h","o","r","_","c","o","n","t","r","i","b","u","t","i","o","n","_","R","e","s","e","a","r","c","h","e","r",".","d","o","c","x">>, "old">>,
      <<<<"i","c","m","j","e","_","d","i","s","c","l","o","s","u","r","e","_","A","n","a","l","y","s","t",".","d","o","c","x">>, "old">>,
      <<<<"o","l","d",".","d","o","c","x">>, "old">>,
      <<<<"n","o","t","e","s",".","t","x","t">>, "old">>,
      <<<<"a","r","c","h","i","v","e",".","d","o","c","x">>, "dir">> }

FormFaults == { "listdir", "remove", "save_contribution", "save_disclosure",
                "save_copyright", "listdir_verify" }

DirOf(entries) ==
    [f \in { e[1] : e \in entries } |-> (CHOOSE e \in entries : e[1] = f)[2]]

InitForms ==
    /\ FormatterIdle /\ EquityIdle /\ FetchIdle /\ DiseaseIdle
    /\ SexIdle /\ CleanIdle /\ CallsIdle /\ WordsIdle /\ SplitIdle /\ PhaseIdle /\ TableIdle
    /\ forms_dir \in { DirOf(entries) : entries \in SUBSET DirPool }
    /\ dir_before = forms_dir
    /\ form_faults \in { fs \in SUBSET FormFaults : Cardinality(fs) <= MaxFormFaults }
    /\ pc_forms = "main"
    /\ to_visit = {}
    /\ authors_left = <<>>
    /\ created_files = <<>>
    /\ forms_log = <<>>

\* the outer except clause: the error is logged and raised again
FormsRaise(log) ==
    /\ forms_log' = Append(log, FormRecord("ERROR", "Error in JAMA forms creation process", <<>>))
    /\ pc_forms' = "raised"

\* main up to the first iteration of the clean-up loop
FormsBegin ==
    /\ pc_forms = "main"
    /\ IF "listdir" \in form_faults
       THEN /\ FormsRaise(forms_log
                    \o << FormRecord("INFO", "Starting JAMA forms creation process", <<>>),
                          FormRecord("INFO", "Cleaning up existing files", <<>>) >>)
            /\ UNCHANGED <<to_visit, authors_left>>
       ELSE /\ forms_log' = forms_log
                    \o << FormRecord("INFO", "Starting JAMA forms creation process", <<>>),
                          FormRecord("INFO", "Cleaning up existing files", <<>>) >>
            /\ to_visit' = DOMAIN forms_dir
            /\ authors_left' = authors
            /\ pc_forms' = IF DOMAIN forms_dir = {} THEN "authors" ELSE "cleanup"
    /\ UNCHANGED <<forms_dir, dir_before, form_faults, created_files>>
    /\ UNCHANGED <<fmt_vars, equity_vars, fetch_vars, disease_vars, sex_vars, clean_vars, calls_vars, words_vars, split_vars, phase_vars, table_vars>>

\* one iteration of the clean-up loop, on any name of the listing
CleanupOne ==
    /\ pc_forms = "cleanup"
    /\ \E file \in to_visit :
          /\ to_visit' = to_visit \ {file}
          /\ IF ~endswith(file, <<".","d","o","c","x">>)
             THEN /\ pc_forms' = IF to_visit' = {} THEN "authors" ELSE "cleanup"
                  /\ UNCHANGED <<forms_dir, forms_log>>
             ELSE IF "remove" \in form_faults \/ forms_dir[file] = "dir"
             THEN /\ FormsRaise(forms_log)
                  /\ UNCHANGED forms_dir
             ELSE /\ forms_dir' = Removed(forms_dir, file)
                  /\ forms_log' = Append(forms_log,
                                         FormRecord("INFO", "Removed existing file", file))
                  /\ pc_forms' = IF to_visit' = {} THEN "authors" ELSE "cleanup"
    /\ UNCHANGED <<dir_before, form_faults, authors_left, created_files>>
    /\ UNCHANGED <<fmt_vars, equity_vars, fetch_vars, disease_vars, sex_vars, clean_vars, calls_vars, words_vars, split_vars, phase_vars, table_vars>>

\* one iteration of the loop over the authors
CreateForms ==
    /\ pc_forms = "authors"
    /\ authors_left # <<>>
    /\ IF "save_contribution" \in form_faults
       THEN /\ FormsRaise(forms_log
                    \o << FormRecord("INFO", "Creating forms for", LastName(Head(authors_left).name)),
                          FormRecord("ERROR", "Error creating forms for", Head(authors_left).name) >>)
            /\ UNCHANGED <<forms_dir, authors_left, created_files>>
       ELSE IF "save_disclosure" \in form_faults
       THEN /\ forms_dir' = Saved(forms_dir, contribution_file(Head(authors_left)))
            /\ created_files' = Append(created_files, contribution_file(Head(authors_left)))
            /\ FormsRaise(forms_log
                    \o << FormRecord("INFO", "Creating forms for", LastName(Head(authors_left).name)),
                          FormRecord("INFO", "Author Contribution Form created for",
                                     LastName(Head(authors_left).name)),
                          FormRecord("ERROR", "Error creating forms for", Head(authors_left).name) >>)
            /\ UNCHANGED authors_left
       ELSE /\ forms_dir' = Saved(Saved(forms_dir, contribution_file(Head(authors_left))),
                                  disclosure_file(Head(authors_left)))
            /\ created_files' = created_files
                    \o << contribution_file(Head(authors_left)),
                          disclosure_file(Head(authors_left)) >>
            /\ forms_log' = forms_log
                    \o << FormRecord("INFO", "Creating forms for", LastName(Head(authors_left).name)),
                          FormRecord("INFO", "Author Contribution Form created for",
                                     LastName(Head(authors_left).name)),
                          FormRecord("INFO", "ICMJE Disclosure Form created for",
                                     LastName(Head(authors_left).name)),
                          FormRecord("INFO", "Successfully created forms for",
                                     LastName(Head(authors_left).name)) >>
            /\ authors_left' = Tail(authors_left)
            /\ pc_forms' = IF Tail(authors_left) = <<>> THEN "copyright" ELSE "authors"
    /\ UNCHANGED <<dir_before, form_faults, to_visit>>
    /\ UNCHANGED <<fmt_vars, equity_vars, fetch_vars, disease_vars, sex_vars, clean_vars, calls_vars, words_vars, split_vars, phase_vars, table_vars>>

\* create_copyright_agreement()
CreateCopyright ==
    /\ pc_forms = "copyright"
    /\ IF "save_copyright" \in form_faults
       THEN /\ FormsRaise(forms_log)
            /\ UNCHANGED <<forms_dir, created_files>>
       ELSE /\ forms_dir' = Saved(forms_dir, copyright_file)
            /\ created_files' = Append(created_files, copyright_file)
            /\ forms_log' = Append(forms_log,
                                   FormRecord("INFO", "Created copyright transfer agreement", <<>>))
            /\ pc_forms' = "verify"
    /\ UNCHANGED <<dir_before, form_faults, to_visit, authors_left>>
    /\ UNCHANGED <<fmt_vars, equity_vars, fetch_vars, disease_vars, sex_vars, clean_vars, calls_vars, words_vars, split_vars, phase_vars, table_vars>>

\* the verification of the directory and the end of main
VerifyFiles ==
    /\ pc_forms = "verify"
    /\ IF "listdir_verify" \in form_faults
       THEN FormsRaise(forms_log)
       ELSE IF ~FilesVerified(expected_files, DOMAIN forms_dir)
       THEN FormsRaise(Append(forms_log, FormRecord("ERROR", "File verification failed", <<>>)))
       ELSE /\ forms_log' = forms_log
                    \o << FormRecord("INFO", "Successfully completed JAMA forms creation", <<>>),
                          FormRecord("INFO", "Created files in", <<>>) >>
            /\ pc_forms' = "returned"
    /\ UNCHANGED <<forms_dir, dir_before, form_faults, to_visit, authors_left, created_files>>
    /\ UNCHANGED <<fmt_vars, equity_vars, fetch_vars, disease_vars, sex_vars, clean_vars, calls_vars, words_vars, split_vars, phase_vars, table_vars>>

NextForms == FormsBegin \/ CleanupOne \/ CreateForms \/ CreateCopyright \/ VerifyFiles

SpecForms == InitForms /\ [][NextForms]_vars

\* ---------------------------------------------------------------------
\* create_jama_tables.py: parse_markdown_table

\* re.search(r'\*\*Table \d+: (.*?)\*\*', s) tried at p: the group, when it
\* matches there
TitleMatchesAt(s, p) ==
    /\ StartsAt(s, p, <<"*","*","T","a","b","l","e"," ">>)
    /\ SkipDigits(s, p + 8) > p + 8
    /\ StartsAt(s, SkipDigits(s, p + 8), <<":"," ">>)
    /\ FindOnLine(s, <<"*","*">>, SkipDigits(s, p + 8) + 2) # 0

\* the least index >= p at which the pattern of the title matches, 0 when none
RECURSIVE TitleStart(_, _)
TitleStart(s, p) ==
    IF p > Len(s) THEN 0
    ELSE IF TitleMatchesAt(s, p) THEN p
    ELSE TitleStart(s, p + 1)

table_title(s) ==
    IF TitleStart(s, 1) = 0 THEN <<"T","a","b","l","e">>
    ELSE SubSeq(s, SkipDigits(s, TitleStart(s, 1) + 8) + 2,
                FindOnLine(s, <<"*","*">>, SkipDigits(s, TitleStart(s, 1) + 8) + 2) - 1)

\* re.search(r'Note: (.*?)$', s, re.MULTILINE): the group runs to the end
\* of the line
table_footnote(s) ==
    IF Find(s, <<"N","o","t","e",":"," ">>, 1) = 0 THEN <<>>
    ELSE SubSeq(s, Find(s, <<"N","o","t","e",":"," ">>, 1) + 6,
                IF Find(s, <<"\n">>, Find(s, <<"N","o","t","e",":"," ">>, 1) + 6) = 0 THEN Len(s)
                ELSE Find(s, <<"\n">>, Find(s, <<"N","o","t","e",":"," ">>, 1) + 6) - 1)

\* re.match(r'^\s*\|[-\s|]+\|\s*$', line)
IsSeparatorRow(line) ==
    /\ Len(strip(line)) >= 3
    /\ strip(line)[1] = "|"
    /\ strip(line)[Len(strip(line))] = "|"
    /\ \A i \in 2..(Len(strip(line)) - 1) : strip(line)[i] \in Whitespace \cup {"-", "|"}

\* the loop over line.split('|'): a piece that is blank gives no cell
RECURSIVE CellsOf(_)
CellsOf(pieces) ==
    IF pieces = <<>> THEN <<>>
    ELSE (IF strip(Head(pieces)) # <<>>
          THEN <<SubEmphasis(strip(Head(pieces)), <<"*","*">>, 1)>>
          ELSE <<>>)
         \o CellsOf(Tail(pieces))

\* the loop over the lines
RECURSIVE RowsOf(_)
RowsOf(lines) ==
    IF lines = <<>> THEN <<>>
    ELSE (IF /\ Find(Head(lines), <<"|">>, 1) # 0
             /\ ~StartsAt(Head(lines), 1, <<"N","o","t","e",":">>)
             /\ ~IsSeparatorRow(Head(lines))
             /\ CellsOf(split(Head(lines), <<"|">>)) # <<>>
          THEN <<CellsOf(split(Head(lines), <<"|">>))>>
          ELSE <<>>)
         \o RowsOf(Tail(lines))

parse_markdown_table(s) ==
    [title |-> table_title(s),
     footnote |-> table_footnote(s),
     rows |-> RowsOf(split(strip(s), <<"\n">>))]

\* the lines of a markdown table file: the title, rows with and without an
\* empty cell, a separator row, a row of bold cells, the note
TableLines ==
    { <<"*","*","T","a","b","l","e"," ","1",":"," ","T","*","*","\n">>,
      <<"|"," ","A"," ","|"," ","B"," ","|"," ","C"," ","|","\n">>,
      <<"|","-","-","-","|","-","-","-","|","-","-","-","|","\n">>,
      <<"|"," ","a"," ","|"," "," ","|"," ","c"," ","|","\n">>,
      <<"|"," ","*","*","x","*","*"," ","|"," ","y"," ","|"," ","z"," ","|","\n">>,
      <<"|"," "," ","|"," "," ","|"," "," ","|","\n">>,
      <<"N","o","t","e",":"," ","n"," ","|"," ","m","\n">>,
      <<"\n">> }

InitTable ==
    /\ FormatterIdle /\ EquityIdle /\ FetchIdle /\ DiseaseIdle
    /\ SexIdle /\ CleanIdle /\ CallsIdle /\ WordsIdle /\ SplitIdle /\ PhaseIdle /\ FormsIdle
    /\ markdown_content \in Texts(TableLines, MaxTableLines)
    /\ table_data = <<>>

\* table_data = parse_markdown_table(markdown_content)
ParseTable ==
    /\ table_data = <<>>
    /\ table_data' = <<parse_markdown_table(markdown_content)>>
    /\ UNCHANGED markdown_content
    /\ UNCHANGED <<fmt_vars, equity_vars, fetch_vars, disease_vars, sex_vars, clean_vars, calls_vars, words_vars, split_vars, phase_vars, forms_vars>>

NextTable == ParseTable

SpecTable == InitTable /\ [][NextTable]_vars

(***************************************************************************)
(* Properties of the manuscript formatter                                  *)
(***************************************************************************)
\* the stage has been entered in this run
Ran(stage) == \E i \in 1..Len(stages) : stages[i] = stage

\* the line of s that starts at p reads exactly lit
IsLine(s, p, lit) ==
    /\ LineStart(s, p)
    /\ StartsAt(s, p, lit)
    /\ (p + Len(lit) > Len(s) \/ s[p + Len(lit)] = "\n")

\* the places where a heading line of the section begins
HeadingLines(s, name) ==
    { p \in 1..Len(s) :
        \E k \in 1..Len(section_patterns[name]) : IsLine(s, p, section_patterns[name][k]) }

\* the places from q on where a line with a level-1 or level-2 heading begins,
\* and the place after the end of the text
SectionEnds(s, q) ==
    { p \in q..Len(s) : LineStart(s, p) /\ (StartsAt(s, p, <<"#","#"," ">>) \/ StartsAt(s, p, <<"#"," ">>)) }
    \cup {Len(s) + 1}

Least(S) == CHOOSE p \in S : \A q \in S : p <= q

\* the text after the heading line at p up to the next heading of the same or
\* a higher level, or the end of the text
ContentUnder(s, p) ==
    LET q == Find(s, <<"\n">>, p)
    IN  IF q = 0 THEN <<>>
        ELSE SubSeq(s, q + 1, Least(SectionEnds(s, q + 1)) - 1)

\* C1: every known section whose level-2 heading line occurs in the text has
\* as its content the text after that line up to the next "## " or "# "
\* heading line or the end of the text (surrounding whitespace aside), with
\* the "### " subheadings and the text under them inside it.
C1_ContentRunsToNextSectionHeading ==
    Ran("split") =>
        \A n \in DOMAIN section_patterns :
            HeadingLines(content, n) # {} =>
                /\ n \in DOMAIN sections
                /\ sections[n] = strip(ContentUnder(content, Least(HeadingLines(content, n))))

\* C2: split_into_sections does not raise, and a name is in the section map
\* only if the text holds that section's heading line: a line that starts
\* with "# " for the title, the "## <Name>" line for every other section.
C2_SectionOnlyWithHeadingLine ==
    Ran("split") =>
        /\ r.exc = "none"
        /\ \A n \in DOMAIN sections :
              IF n = "title"
              THEN \E p \in 1..Len(content) : LineStart(content, p) /\ StartsAt(content, p, <<"#"," ">>)
              ELSE HeadingLines(content, n) # {}

\* the elements a step added to the document body
Added(old, new) == SubSeq(new.doc.body, Len(old.doc.body) + 1, Len(new.doc.body))

\* a section heading: a left-aligned paragraph of one bold run
IsHeading(e) == e.kind = "para" /\ e.align = "" /\ Len(e.runs) = 1 /\ e.runs[1].bold

\* the headings of the body and back-matter sections in document order
SectionHeadings ==
    << <<"introduction", <<"I","n","t","r","o","d","u","c","t","i","o","n">>>>, <<"methods", <<"M","e","t","h","o","d","s">>>>,
       <<"results", <<"R","e","s","u","l","t","s">>>>, <<"discussion", <<"D","i","s","c","u","s","s","i","o","n">>>>,
       <<"conclusion", <<"C","o","n","c","l","u","s","i","o","n">>>>,
       <<"abbreviations", <<"L","i","s","t"," ","o","f"," ","A","b","b","r","e","v","i","a","t","i","o","n","s">>>>,
       <<"declarations", <<"D","e","c","l","a","r","a","t","i","o","n","s">>>>, <<"references", <<"R","e","f","e","r","e","n","c","e","s">>>> >>

IsPresentHeading(h) == h[1] \in DOMAIN sections

RECURSIVE HeadingTexts(_)
HeadingTexts(es) ==
    IF es = <<>> THEN <<>>
    ELSE <<Head(es).runs[1].text>> \o HeadingTexts(Tail(es))

RECURSIVE Seconds(_)
Seconds(hs) == IF hs = <<>> THEN <<>> ELSE <<Head(hs)[2]>> \o Seconds(Tail(hs))

LastLog(rr) == rr.log[Len(rr.log)]

\* C4: an exception raised in a stage is logged and propagates to the
\* outermost level: no later stage runs and no file is written after it, the
\* cover letter is not converted when the manuscript conversion failed, and
\* the only step left is the one that logs the failure, prints the error
\* message and ends the process with status 1.
C4_ExceptionEndsTheRun ==
    /\ [](r.exc # "none" => pc \in {"main_except", "exited"})
    /\ []((r.exc # "none" /\ ~Ran("cover_letter")) => files.cover = NoFile)
    /\ []((r.exc # "none" /\ stages # <<>>) =>
            \E i \in 1..Len(r.log) : r.log[i][1] = "ERROR")
    /\ []((pc = "exited" /\ r.exc # "none") =>
            /\ exit_code = 1
            /\ stdout # <<>> /\ stdout[Len(stdout)] = "Error"
            /\ LastLog(r) = <<"ERROR", "Script execution failed">>)
    /\ [][ r.exc # "none" =>
            /\ pc' = "exited"
            /\ stages' = stages
            /\ files' = files ]_vars

\* C4: the run ended with status 1 after the abstract page raised
C4_Witness ==
    /\ pc = "exited"
    /\ exit_code = 1
    /\ stages # <<>>
    /\ stages[Len(stages)] = "abstract_page"
    /\ files.cover = NoFile

\* the blocks of the structured abstracts: label, content as written, content
\* as it reads without its markdown
AbstractBlocks ==
    { [label |-> <<"A">>, content |-> <<"x">>, cleaned |-> <<"x">>],
      [label |-> <<"B">>, content |-> <<"*","y","*">>, cleaned |-> <<"y">>] }

BlockSeqs == UNION { [1..k -> AbstractBlocks] : k \in 0..MaxFrags }

\* "**Label**: content" blocks separated by blank lines
RECURSIVE JoinBlocks(_, _)
JoinBlocks(bs, i) ==
    IF i > Len(bs) THEN <<>>
    ELSE (IF i > 1 THEN <<"\n","\n">> ELSE <<>>)
         \o <<"*","*">> \o bs[i].label \o <<"*","*",":"," ">> \o bs[i].content
         \o JoinBlocks(bs, i + 1)

\* C8: for an abstract made of n blocks "**Label**: content" (content not
\* empty) separated by blank lines, the abstract page holds, between its
\* heading and word count and its page break, exactly n paragraphs in source
\* order, each a bold run with the block's label and ": " followed by a
\* non-bold run with the block's content without its markdown.
C8_OneParagraphPerBlock ==
    [][ (pc = "abstract_page" /\ "abstract" \in DOMAIN sections) =>
          \A bs \in BlockSeqs :
              sections["abstract"] = JoinBlocks(bs, 1) =>
                  /\ Len(Added(r, r')) = Len(bs) + 3
                  /\ \A i \in 1..Len(bs) :
                        Added(r, r')[i + 2] =
                            [kind |-> "para", align |-> "",
                             runs |-> << Run(bs[i].label \o <<":"," ">>, TRUE, FALSE),
                                         Run(bs[i].cleaned, FALSE, FALSE) >>]
      ]_vars

\* C8: the abstract page of a two-block abstract has been rendered
C8_Witness ==
    /\ pc = "paragraphs"
    /\ "abstract" \in DOMAIN sections
    /\ sections["abstract"] = <<"*","*","A","*","*",":"," ","x","\n","\n","*","*","B","*","*",":"," ","*","y","*">>
    /\ Len(r.doc.body) >= 4
    /\ r.doc.body[Len(r.doc.body) - 1].runs[1].text = <<"B",":"," ">>

StructuredAbstractError == <<"ERROR", "Error processing structured abstract">>

HasLogged(rr, rec) == \E i \in 1..Len(rr.log) : rr.log[i] = rec

\* C9: when the structured rendering of the abstract raises, the abstract
\* page does not propagate the exception: it ends with one paragraph holding
\* the whole abstract without its markdown and the page break, and the body
\* sections are rendered next.
C9_FallbackNeverPropagates ==
    [][ (pc = "abstract_page" /\ HasLogged(r', StructuredAbstractError)) =>
          /\ r'.exc = "none"
          /\ pc' = "paragraphs"
          /\ Len(r'.doc.body) >= 2
          /\ r'.doc.body[Len(r'.doc.body)].kind = "pagebreak"
          /\ r'.doc.body[Len(r'.doc.body) - 1].runs
                = <<Run(clean_markdown(sections["abstract"]), FALSE, FALSE)>>
      ]_vars

\* the indices from p on at which the delimiter starts
DelimitersFrom(t, p, delimiter) ==
    { e \in p..(Len(t) - Len(delimiter) + 1) :
        SubSeq(t, e, e + Len(delimiter) - 1) = delimiter }

\* the pieces of t[p..] between the occurrences of the delimiter, in order
RECURSIVE Pieces(_, _, _)
Pieces(t, p, delimiter) ==
    IF DelimitersFrom(t, p, delimiter) = {} THEN <<SubSeq(t, p, Len(t))>>
    ELSE <<SubSeq(t, p, Least(DelimitersFrom(t, p, delimiter)) - 1)>>
         \o Pieces(t, Least(DelimitersFrom(t, p, delimiter)) + Len(delimiter), delimiter)

IsBlank(line) == \A i \in 1..Len(line) : line[i] \in Whitespace

\* the paragraph of a piece of text: one plain run with the text without its
\* markdown and without the whitespace around it
ParagraphOf(piece) ==
    [kind |-> "para", align |-> "",
     runs |-> <<[text |-> clean_markdown(strip(piece)), bold |-> FALSE, italic |-> FALSE]>>]

HeadingOf(title) ==
    [kind |-> "para", align |-> "",
     runs |-> <<[text |-> title, bold |-> TRUE, italic |-> FALSE]>>]

\* one paragraph per piece, in order; blank pieces are left out when asked
RECURSIVE ParagraphsOf(_, _)
ParagraphsOf(pieces, skip_blank) ==
    IF pieces = <<>> THEN <<>>
    ELSE (IF skip_blank /\ IsBlank(Head(pieces)) THEN <<>>
          ELSE <<ParagraphOf(Head(pieces))>>)
         \o ParagraphsOf(Tail(pieces), skip_blank)

\* for the body sections present, from the k-th on: the heading and one
\* paragraph per block delimited by a blank line
RECURSIVE BodyElements(_)
BodyElements(k) ==
    IF k > 5 THEN <<>>
    ELSE (IF SectionHeadings[k][1] \in DOMAIN sections
          THEN <<HeadingOf(SectionHeadings[k][2])>>
               \o ParagraphsOf(Pieces(sections[SectionHeadings[k][1]], 1, <<"\n","\n">>), FALSE)
          ELSE <<>>)
         \o BodyElements(k + 1)

\* the References heading and one paragraph per non-blank line
ReferenceElements ==
    <<HeadingOf(<<"R","e","f","e","r","e","n","c","e","s">>)>>
    \o ParagraphsOf(Pieces(sections["references"], 1, <<"\n">>), TRUE)

\* C18: for each present body section (introduction, methods, results,
\* discussion, conclusion) process_paragraphs emits one heading followed by
\* exactly one paragraph per block of the section text delimited by a blank
\* line, in source order, and nothing else before the back matter;
\* process_references_section emits the heading and exactly one paragraph
\* per non-blank line of the references text, in source order.
C18_ParagraphPerBlockAndPerReference ==
    [][ pc = "paragraphs" =>
          /\ Len(Added(r, r')) >= Len(BodyElements(1))
          /\ SubSeq(Added(r, r'), 1, Len(BodyElements(1))) = BodyElements(1)
          /\ Len(Added(r, r')) > Len(BodyElements(1)) =>
                Added(r, r')[Len(BodyElements(1)) + 1].runs[1].text
                    \in {<<"L","i","s","t"," ","o","f"," ","A","b","b","r","e","v","i","a","t","i","o","n","s">>, <<"D","e","c","l","a","r","a","t","i","o","n","s">>, <<"R","e","f","e","r","e","n","c","e","s">>}
          /\ "references" \in DOMAIN sections =>
                /\ Len(Added(r, r')) >= Len(BodyElements(1)) + Len(ReferenceElements)
                /\ SubSeq(Added(r, r'),
                          Len(Added(r, r')) - Len(ReferenceElements) + 1,
                          Len(Added(r, r'))) = ReferenceElements
      ]_vars

\* C18: a run has rendered a section of two blocks and two references
\* separated by a blank line
C18_Witness ==
    /\ Ran("paragraphs")
    /\ r.exc = "none"
    /\ DOMAIN sections = {"title", "discussion", "references"}
    /\ sections["discussion"] = <<"d","\n","\n","e">>
    /\ sections["references"] = <<"1"," ","a","\n","\n","2"," ","b">>
    /\ Len(r.doc.body) >= 6
    /\ r.doc.body[Len(r.doc.body)] = ParagraphOf(<<"2"," ","b">>)
    /\ r.doc.body[Len(r.doc.body) - 1] = ParagraphOf(<<"1"," ","a">>)
    /\ r.doc.body[Len(r.doc.body) - 2] = HeadingOf(<<"R","e","f","e","r","e","n","c","e","s">>)
    /\ r.doc.body[Len(r.doc.body) - 3] = ParagraphOf(<<"e">>)
    /\ r.doc.body[Len(r.doc.body) - 4] = ParagraphOf(<<"d">>)
    /\ r.doc.body[Len(r.doc.body) - 5] = HeadingOf(<<"D","i","s","c","u","s","s","i","o","n">>)

\* the places where a "### " subheading line begins
SubsectionStarts(t) ==
    { p \in 1..Len(t) : LineStart(t, p) /\ StartsAt(t, p, <<"#","#","#"," ">>) }

\* the text of the manuscript under its "## Declarations" heading line
DeclarationsSource ==
    ContentUnder(content, Least(HeadingLines(content, "declarations")))

\* where the subsection that begins at p ends
SubsectionEnd(t, p) ==
    Least({ q \in SubsectionStarts(t) : q > p } \cup {Len(t) + 1})

\* the subsection at p is a '### Title' line, a blank line and text
IsSubsection(t, p) ==
    /\ Find(t, <<"\n">>, p) > p + 4
    /\ Find(t, <<"\n">>, p) + 1 <= Len(t)
    /\ t[Find(t, <<"\n">>, p) + 1] = "\n"
    /\ ~IsBlank(SubSeq(t, Find(t, <<"\n">>, p) + 1, SubsectionEnd(t, p) - 1))

SubheadingOf(title) ==
    [kind |-> "para", align |-> "",
     runs |-> <<[text |-> title, bold |-> FALSE, italic |-> TRUE]>>]

\* the italic subheading and the text paragraph of every subsection of t
\* from p on, in source order
RECURSIVE DeclarationElements(_, _)
DeclarationElements(t, p) ==
    IF { q \in SubsectionStarts(t) : q >= p } = {} THEN <<>>
    ELSE << SubheadingOf(SubSeq(t, Least({ q \in SubsectionStarts(t) : q >= p }) + 4,
                                Find(t, <<"\n">>, Least({ q \in SubsectionStarts(t) : q >= p })) - 1)),
            ParagraphOf(SubSeq(t, Find(t, <<"\n">>, Least({ q \in SubsectionStarts(t) : q >= p })) + 1,
                               SubsectionEnd(t, Least({ q \in SubsectionStarts(t) : q >= p })) - 1)) >>
         \o DeclarationElements(t, SubsectionEnd(t, Least({ q \in SubsectionStarts(t) : q >= p })))

\* C19: for a manuscript whose Declarations section holds k subsections,
\* each a '### Title' line followed by a blank line and text, the step of
\* process_paragraphs adds, after the 'Declarations' heading, k italic
\* subheadings each followed by its text paragraph, in source order.
C19_EveryDeclarationRendered ==
    [][ ( /\ pc = "paragraphs"
          /\ r'.exc = "none"
          /\ HeadingLines(content, "declarations") # {}
          /\ SubsectionStarts(DeclarationsSource) # {}
          /\ \A p \in SubsectionStarts(DeclarationsSource) :
                 IsSubsection(DeclarationsSource, p) ) =>
          \E i \in 1..Len(Added(r, r')) :
              /\ Added(r, r')[i] = HeadingOf(<<"D","e","c","l","a","r","a","t","i","o","n","s">>)
              /\ Len(Added(r, r')) >= i + Len(DeclarationElements(DeclarationsSource, 1))
              /\ SubSeq(Added(r, r'), i + 1,
                        i + Len(DeclarationElements(DeclarationsSource, 1)))
                    = DeclarationElements(DeclarationsSource, 1)
      ]_vars

\* the places where a whitespace-delimited token of t begins
TokenStarts(t) ==
    { i \in 1..Len(t) : t[i] \notin Whitespace /\ (i = 1 \/ t[i - 1] \in Whitespace) }

\* the number of tokens left once clean_markdown has stripped the markup
TokensLeft(t) == Cardinality(TokenStarts(clean_markdown(t)))

\* the tokens of the sections of the map named in S, summed
RECURSIVE TokensOfSections(_)
TokensOfSections(S) ==
    IF S = {} THEN 0
    ELSE TokensLeft(sections[CHOOSE n \in S : TRUE])
         + TokensOfSections(S \ {CHOOSE n \in S : TRUE})

WordCountParagraph(n) ==
    [kind |-> "para", align |-> "CENTER",
     runs |-> <<[text |-> <<"W","o","r","d"," ","C","o","u","n","t",":"," ">> \o str_int(n), bold |-> FALSE, italic |-> FALSE]>>]

\* C20: the 'Word Count' line that closes the title page gives the sum of
\* the token counts of exactly those of introduction, methods, results,
\* discussion and conclusion that are in the section map (0 when none is),
\* and the 'Word Count' line under the ABSTRACT heading gives the token
\* count of the abstract text; a token is a maximal run of non-whitespace
\* characters of the text without its emphasis, link and superscript markup.
C20_WordCounts ==
    [][ /\ (pc = "title_page" /\ r'.exc = "none") =>
              /\ Len(Added(r, r')) >= 3
              /\ Added(r, r')[Len(Added(r, r'))].kind = "pagebreak"
              /\ Added(r, r')[Len(Added(r, r')) - 1]
                    = WordCountParagraph(TokensOfSections(
                          {"introduction", "methods", "results", "discussion", "conclusion"}
                              \cap DOMAIN sections))
        /\ (pc = "abstract_page" /\ "abstract" \in DOMAIN sections /\ r'.exc = "none") =>
              /\ Len(Added(r, r')) >= 2
              /\ Added(r, r')[2] = WordCountParagraph(TokensLeft(sections["abstract"]))
      ]_vars

\* C20: a manuscript with an abstract of two words after its markup is
\* stripped and a discussion of two words in two blocks, both pages written
C20_Witness ==
    /\ Ran("abstract_page")
    /\ r.exc = "none"
    /\ DOMAIN sections = {"title", "abstract", "discussion"}
    /\ sections["abstract"] = <<"*","*","B","*","*",":"," ","*","y","*">>
    /\ sections["discussion"] = <<"d","\n","\n","e">>
    /\ Len(r.doc.body) >= 5
    /\ r.doc.body[2] = WordCountParagraph(2)
    /\ r.doc.body[3].kind = "pagebreak"
    /\ r.doc.body[5] = WordCountParagraph(2)

\* the stages of convert_to_jama_format in the order of its statements
StageOrder ==
    << "read", "split", "page_numbers", "title_page", "abstract_page", "paragraphs", "save" >>

IsConversionStage(stage) == \E k \in 1..Len(StageOrder) : StageOrder[k] = stage

\* the place of a section heading in the fixed order, 0 for another text
HeadingRank(title) ==
    IF \E k \in 1..Len(SectionHeadings) : SectionHeadings[k][2] = title
    THEN CHOOSE k \in 1..Len(SectionHeadings) : SectionHeadings[k][2] = title
    ELSE 0

\* C22: the stages of convert_to_jama_format are entered in the order read
\* and split, page setup and page numbers, title page, abstract page, body,
\* save; the page setup starts from an empty document; the save writes the
\* document as the body stage left it and no stage of the conversion
\* follows it; and the section headings the body stage adds stand in the
\* fixed order introduction, methods, results, discussion, conclusion,
\* abbreviations, declarations, references, one per section of the map.
C22_StagesAndSectionsInFixedOrder ==
    [][ /\ SelectSeq(stages', IsConversionStage)
              = SubSeq(StageOrder, 1, Len(SelectSeq(stages', IsConversionStage)))
        /\ pc = "page_numbers" =>
              r'.doc.body = <<>> /\ r'.doc.header = <<[field |-> "PAGE", align |-> "RIGHT"]>>
        /\ pc = "save" => files'.manuscript = r.doc /\ r'.doc = r.doc
        /\ Ran("save") =>
              /\ files'.manuscript = files.manuscript
              /\ SelectSeq(stages', IsConversionStage) = SelectSeq(stages, IsConversionStage)
        /\ pc = "paragraphs" =>
              /\ \A i, j \in 1..Len(Added(r, r')) :
                    (i < j /\ IsHeading(Added(r, r')[i]) /\ IsHeading(Added(r, r')[j])) =>
                        /\ HeadingRank(Added(r, r')[i].runs[1].text) > 0
                        /\ HeadingRank(Added(r, r')[i].runs[1].text)
                              < HeadingRank(Added(r, r')[j].runs[1].text)
              /\ \A k \in 1..Len(SectionHeadings) :
                    SectionHeadings[k][1] \in DOMAIN sections =>
                        \E i \in 1..Len(Added(r, r')) :
                            Added(r, r')[i] = HeadingOf(SectionHeadings[k][2])
      ]_vars

\* C22: a manuscript with its references before its discussion and its
\* discussion before its methods has been saved with the methods first and
\* the references last
C22_Witness ==
    /\ Ran("save")
    /\ manuscript_file
          = <<"#","#"," ","R","e","f","e","r","e","n","c","e","s","\n","1"," ","a","\n","\n","2"," ","b","\n">> \o <<"#","#"," ","D","i","s","c","u","s","s","i","o","n","\n","d","\n","\n","e","\n">> \o <<"#","#"," ","M","e","t","h","o","d","s","\n","m","\n","#","#","#"," ","S","\n","n","\n">>
    /\ files.manuscript = r.doc
    /\ \E i, j, k \in 1..Len(r.doc.body) :
          /\ i < j /\ j < k
          /\ r.doc.body[i] = HeadingOf(<<"M","e","t","h","o","d","s">>)
          /\ r.doc.body[j] = HeadingOf(<<"D","i","s","c","u","s","s","i","o","n">>)
          /\ r.doc.body[k] = HeadingOf(<<"R","e","f","e","r","e","n","c","e","s">>)

\* the places of a text where a line with a level-2 heading begins
HeadingLinesIn(t) == { p \in 1..Len(t) : LineStart(t, p) /\ StartsAt(t, p, <<"#","#"," ">>) }

\* C26: the content split_into_sections stores for a section holds no
\* heading line of a level-2 section: a section whose heading is directly
\* followed by the next "## " heading gets empty content.
C26_NoHeadingLineInContent ==
    Ran("split") =>
        \A n \in DOMAIN sections \ {"title"} : HeadingLinesIn(sections[n]) = {}

\* C27: the file manuscript_jama.docx changes in the save alone; when a
\* stage of the conversion before the save has raised, the save is never
\* entered and the file is what it was before the call, absent or the file
\* of an earlier run.
C27_FailedConversionLeavesTheFile ==
    /\ []((r.exc # "none" /\ ~Ran("save")) => files.manuscript \in {NoFile, OldFile})
    /\ [][ /\ (r.exc # "none" /\ ~Ran("save")) =>
                 /\ \A i \in 1..Len(stages') : stages'[i] # "save"
                 /\ files'.manuscript = files.manuscript
           /\ pc # "save" => files'.manuscript = files.manuscript
       ]_vars

\* C27: the run has ended after the title page raised, the file of an
\* earlier run still in place
C27_Witness ==
    /\ pc = "exited"
    /\ r.exc # "none"
    /\ stages # <<>>
    /\ stages[Len(stages)] = "title_page"
    /\ files.manuscript = OldFile

\* the token of t that begins at i
TokenAt(t, i) ==
    SubSeq(t, i, Least({ j \in i..Len(t) : j = Len(t) \/ t[j + 1] \in Whitespace }))

\* the words of the text without its markdown
TokensOf(t) == { TokenAt(clean_markdown(t), i) : i \in TokenStarts(clean_markdown(t)) }

\* the word stands in a run of one of the elements
StandsIn(word, elements) ==
    \E k \in 1..Len(elements) : \E n \in 1..Len(elements[k].runs) :
        In(word, elements[k].runs[n].text)

\* C29: when the section map holds an abstract that is not empty, every
\* word of it stands in the paragraphs the abstract page adds under its
\* heading and its word count: text without a '**Label**:' block and text
\* before the first block is rendered too.
C29_WholeAbstractIsRendered ==
    [][ (pc = "abstract_page" /\ "abstract" \in DOMAIN sections /\ r'.exc = "none") =>
          \A word \in TokensOf(sections["abstract"]) :
              StandsIn(word, SubSeq(Added(r, r'), 3, Len(Added(r, r'))))
      ]_vars

\* the paragraphs of a document body that follow its last 'Sincerely,'
\* paragraph; none when the body has no such paragraph
IsSincerely(element) ==
    /\ element.kind = "para"
    /\ Len(element.runs) = 1
    /\ element.runs[1].text = <<"S","i","n","c","e","r","e","l","y",",">>

SignatureLines(body) ==
    LET at == { i \in 1..Len(body) : IsSincerely(body[i]) }
    IN  IF at = {} THEN <<>>
        ELSE SubSeq(body, (CHOOSE i \in at : \A j \in at : j <= i) + 1, Len(body))

IsGenericLine(element) ==
    /\ element.kind = "para"
    /\ Len(element.runs) = 1
    /\ element.runs[1].text = GenericSignature

\* C30: every cover letter that is saved has at least one signature line
\* after 'Sincerely,'; for a manuscript that is readable but has no
\* '**Authors**:' block the line is the generic signature line.
C30_SavedCoverLetterIsSigned ==
    [][ (pc = "cover_letter" /\ r'.exc = "none") =>
          /\ SignatureLines(r'.doc.body) # <<>>
          /\ Find(manuscript_file, <<"*","*","A","u","t","h","o","r","s","*","*",":">>, 1) = 0 =>
                \E i \in 1..Len(SignatureLines(r'.doc.body)) :
                    IsGenericLine(SignatureLines(r'.doc.body)[i])
      ]_vars

(***************************************************************************)
(* Properties of the analysis script                                       *)
(***************************************************************************)
\* the disease categories of the dataset
CategoriesOf(frame) == { frame[i].Disease_Category : i \in 1..Len(frame) }

\* C5: a category whose analysis fails (all its trials of Unknown sex, so
\* that its total of potential participants is 0) is skipped or defaulted:
\* the analysis returns, and every other category has its results.
C5_FailingCategoryDoesNotAbort ==
    pc_main \notin {"call", "loop"} =>
        /\ equity_results # Unset
        /\ \A d \in CategoriesOf(df_clean) :
              TotalPotential(df_clean, d) > 0 => d \in DOMAIN equity_results

\* the values of a field of the records of a sequence
Field(recs, name) == [i \in 1..Len(recs) |-> recs[i][name]]

\* the ids that occur in the column
PresentIds(frame) == { frame[i] : i \in 1..Len(frame) } \ {NaN}

FirstRow(frame, x) == Least({ i \in 1..Len(frame) : frame[i] = x })

Smaller(a, b) == IF a <= b THEN a ELSE b

\* q lists the first min(n, number of distinct ids) distinct non-missing ids
\* of the column, in the order of their first rows
IsSelection(q, frame, n) ==
    /\ Len(q) = Smaller(n, Cardinality(PresentIds(frame)))
    /\ \A i \in 1..Len(q) : q[i] \in PresentIds(frame)
    /\ \A i, j \in 1..Len(q) : i < j => FirstRow(frame, q[i]) < FirstRow(frame, q[j])
    /\ \A x \in PresentIds(frame) :
          (\A i \in 1..Len(q) : q[i] # x) =>
              \A i \in 1..Len(q) : FirstRow(frame, q[i]) < FirstRow(frame, x)

\* q is the beginning of a sequence that IsSelection accepts
IsSelectionPrefix(q, frame, n) ==
    /\ Len(q) <= Smaller(n, Cardinality(PresentIds(frame)))
    /\ IsSelection(q, frame, Len(q))

\* C6: the registry is asked once for each of the first min(n_trials, number
\* of distinct non-missing ids) ids, one after the other and in order, with
\* the delay of 500 ms after every request; a request that fails leaves the
\* empty string for its trial and the loop goes on; when the loop is over
\* the list holds exactly one entry per selected trial, and the table
\* returned has that entry in every row of a selected trial.
C6_OneRequestPerSelectedTrial ==
    /\ IsSelectionPrefix(Field(requests_made, "nct_id"), df, n_trials)
    /\ slept = [i \in 1..Len(requests_made) |-> 500]
    /\ Field(eligibility_texts, "nct_id") = Field(requests_made, "nct_id")
    /\ \A i \in 1..Len(requests_made) :
          requests_made[i].response \in {"connection error", "not JSON", "no study"}
              => eligibility_texts[i].criteria = <<>>
    /\ pc_fetch \in {"returned", "raised"} =>
          IsSelection(Field(requests_made, "nct_id"), df, n_trials)
    /\ pc_fetch = "returned" =>
          /\ Len(df_with_eligibility) = Len(df)
          /\ \A i \in 1..Len(eligibility_texts) : \A k \in 1..Len(df) :
                df[k] = eligibility_texts[i].nct_id =>
                    df_with_eligibility[k].criteria = eligibility_texts[i].criteria

\* C6: a call on three rows that hold two distinct ids has returned after
\* two requests, the first of which failed
C6_Witness ==
    /\ pc_fetch = "returned"
    /\ Len(df) = 3
    /\ Len(requests_made) = 2
    /\ requests_made[1].response = "connection error"
    /\ requests_made[2].response = "criteria"
    /\ eligibility_texts[1].criteria = <<>>

\* C7: once analyze_sex_representation_equity has returned and the saving
\* step is over, the results are on disk as JSON, in
\* data/equity_analysis_results.json or, when that write failed, in
\* equity_analysis_results.json.
C7_ResultsWrittenAsJSON ==
    pc_main \in {"fetch", "done"} =>
        \/ json_files.data = JSONText(equity_results)
        \/ json_files.alt = JSONText(equity_results)

\* the order of the categories
CategoryOrder ==
    << "COVID-19", "HIV/AIDS", "Cancer", "Cardiovascular", "Diabetes",
       "Mental Health", "Respiratory", "Infectious Disease" >>

\* the same character, or the two cases of one letter
SameLetter(a, b) ==
    \/ a = b
    \/ \E i \in 1..Len(LowerCase) : {a, b} = {LowerCase[i], UpperCase[i]}

\* kw is a substring of s when the case of the letters is ignored
OccursIgnoringCase(kw, s) ==
    \E i \in 1..(Len(s) - Len(kw) + 1) :
        \A j \in 1..Len(kw) : SameLetter(s[i + j - 1], kw[j])

\* the category has a keyword that occurs in s
CategoryMatches(c, s) ==
    \E k \in 1..Len(disease_categories) :
        /\ disease_categories[k][1] = c
        /\ \E w \in 1..Len(disease_categories[k][2]) :
              OccursIgnoringCase(disease_categories[k][2][w], s)

\* C10: categorize_disease returns 'Unknown' for a missing value, else the
\* first category of the order COVID-19, HIV/AIDS, Cancer, Cardiovascular,
\* Diabetes, Mental Health, Respiratory, Infectious Disease that has a
\* keyword occurring in the value as a case-insensitive substring, and
\* 'Other' when no category has one.
C10_FirstMatchingCategory ==
    category # Unset =>
        IF conditions = NaN THEN category = "Unknown"
        ELSE IF \A k \in 1..Len(CategoryOrder) : ~CategoryMatches(CategoryOrder[k], conditions)
        THEN category = "Other"
        ELSE \E k \in 1..Len(CategoryOrder) :
                /\ category = CategoryOrder[k]
                /\ CategoryMatches(CategoryOrder[k], conditions)
                /\ \A j \in 1..(k - 1) : ~CategoryMatches(CategoryOrder[j], conditions)

\* C10: a value that names a cancer before HIV, in mixed case, has been
\* categorised
C10_Witness ==
    /\ conditions = <<"L","y","m","p","h","o","m","a"," ","H","I","V"," ">>
    /\ category = "HIV/AIDS"

\* a equals b when the case of the letters is ignored
EqualIgnoringCase(a, b) == Len(a) = Len(b) /\ OccursIgnoringCase(a, b)

\* C11: categorize_by_sex returns exactly one of Female Only, Male Only,
\* Both Sexes, Unknown: Unknown for a missing value and for 'Unknown'; else
\* Female Only when the upper-cased value is exactly FEMALE or F, Male Only
\* when it is exactly MALE or M, Both Sexes when it otherwise contains both
\* FEMALE and MALE or contains ALL, and Unknown for anything else.
C11_SexCategoryByValue ==
    sex_category # Unset =>
        /\ sex_category \in {"Female Only", "Male Only", "Both Sexes", "Unknown"}
        /\ sex_category = "Female Only" <=>
              /\ sex_value # NaN
              /\ EqualIgnoringCase(sex_value, <<"F","E","M","A","L","E">>) \/ EqualIgnoringCase(sex_value, <<"F">>)
        /\ sex_category = "Male Only" <=>
              /\ sex_value # NaN
              /\ EqualIgnoringCase(sex_value, <<"M","A","L","E">>) \/ EqualIgnoringCase(sex_value, <<"M">>)
        /\ sex_category = "Both Sexes" <=>
              /\ sex_value # NaN
              /\ sex_value # <<"U","n","k","n","o","w","n">>
              /\ \A w \in {<<"F","E","M","A","L","E">>, <<"F">>, <<"M","A","L","E">>, <<"M">>} : ~EqualIgnoringCase(sex_value, w)
              /\ \/ OccursIgnoringCase(<<"F","E","M","A","L","E">>, sex_value)
                    /\ OccursIgnoringCase(<<"M","A","L","E">>, sex_value)
                 \/ OccursIgnoringCase(<<"A","L","L">>, sex_value)

\* C11: a value that lists both sexes in mixed case has been categorised
C11_Witness ==
    /\ sex_value = <<"F","e","m","a","l","e",","," ","M","a","l","e">>
    /\ sex_category = "Both Sexes"

\* MALE occurs at p of the upper-cased value and is not the end of FEMALE
MaleAt(value, p) == StartsAt(value, p, <<"M","A","L","E">>) /\ ~StartsAt(value, p - 2, <<"F","E","M","A","L","E">>)

\* the upper-cased value mentions females and neither males nor all nor both
MentionsFemalesOnly(value) ==
    /\ In(<<"F","E","M","A","L","E">>, value)
    /\ \A p \in 1..Len(value) : ~MaleAt(value, p)
    /\ ~In(<<"A","L","L">>, value)
    /\ ~In(<<"B","O","T","H">>, value)

\* C28: a value that mentions females only and is not the exact token
\* FEMALE is never categorised as Both Sexes.
C28_FemalesOnlyIsNotBothSexes ==
    (sex_category # Unset /\ sex_value # NaN /\ MentionsFemalesOnly(upper(sex_value))) =>
        sex_category # "Both Sexes"

\* the runs that have their derived columns
Done == { k \in Runs : pc_clean[k] = "done" }

\* the rows kept by run k, as <<k, position in df_clean>>
Kept == { <<k, i>> \in Runs \X (1..MaxRecords + 1) : k \in Done /\ i <= Len(frames[k]) }

RowOf(c) == frames[c[1]][c[2]]

\* the row of the CSV file that a kept row was read from
RawOf(c) == csv[c[1]][RowOf(c).index]

\* the index of the row is a number that is at most the threshold
AtMost(row, threshold) ==
    /\ ~row.GII.nan
    /\ ~threshold.nan
    /\ 100 * row.GII.val <= threshold.val

\* C12: every record kept by clean_data gets a GII_Category that is one of
\* the three tertile levels: Low GII when its index is at most the 33%
\* threshold of the run, Medium GII when it is above that and at most the 67%
\* threshold, High GII otherwise; no kept record gets a fourth value.
C12_EveryKeptRecordInATertile ==
    \A c \in Kept :
        /\ RowOf(c).GII_Category \in {"Low GII", "Medium GII", "High GII"}
        /\ RowOf(c).GII_Category = "Low GII" <=>
              AtMost(RowOf(c), thresholds[c[1]].low)
        /\ RowOf(c).GII_Category = "Medium GII" <=>
              /\ ~AtMost(RowOf(c), thresholds[c[1]].low)
              /\ AtMost(RowOf(c), thresholds[c[1]].high)

\* the derived columns that depend on the record alone
OwnColumns(row) == <<row.Sex_Category, row.Disease_Category, row.Standardized_Phase>>

\* C13 as stated: two records with equal raw fields get equal values in the
\* four derived columns Sex_Category, Disease_Category, Standardized_Phase
\* and GII_Category, in the same dataset and in two different datasets.
C13_DerivedColumnsOfRawFieldsAlone ==
    \A c \in Kept : \A d \in Kept :
        RawOf(c) = RawOf(d) =>
            /\ OwnColumns(RowOf(c)) = OwnColumns(RowOf(d))
            /\ RowOf(c).GII_Category = RowOf(d).GII_Category

\* C13 amended: two records with equal raw fields get equal Sex_Category,
\* Disease_Category and Standardized_Phase in the same dataset and in two
\* different datasets, and equal GII_Category when they are in the same
\* dataset; GII_Category is a function of the record's index and of the two
\* thresholds of its dataset.
C13_DerivedColumnsOfRawFieldsAndThresholds ==
    \A c \in Kept : \A d \in Kept :
        /\ RawOf(c) = RawOf(d) =>
              /\ OwnColumns(RowOf(c)) = OwnColumns(RowOf(d))
              /\ c[1] = d[1] => RowOf(c).GII_Category = RowOf(d).GII_Category
        /\ (RowOf(c).GII = RowOf(d).GII /\ thresholds[c[1]] = thresholds[d[1]]) =>
              RowOf(c).GII_Category = RowOf(d).GII_Category

\* C13: both runs have ended, a record occurs twice in the first dataset and
\* once in the second, where it gets another GII level
C13_Witness ==
    /\ Done = Runs
    /\ \E c \in Kept : \E d \in Kept : \E e \in Kept :
          /\ c[1] = 1 /\ d[1] = 1 /\ c[2] # d[2] /\ e[1] = 2
          /\ RawOf(c) = RawOf(d) /\ RawOf(c) = RawOf(e)
          /\ RowOf(c).GII_Category = "Medium GII"
          /\ RowOf(e).GII_Category = "Low GII"

\* the value that a call was given
Argument(call) ==
    IF call.function = "categorize_by_sex" THEN dataset[call.row].Sex
    ELSE dataset[call.row].Conditions

C15_EmphasisKeepsWordCount ==
    word_counts # <<>> =>
        /\ word_counts[2] = word_counts[1]
        /\ word_counts[3] = word_counts[1]

RECURSIVE Tally(_, _, _)
Tally(frame, disease, sex) ==
    IF frame = <<>> THEN 0
    ELSE (IF Head(frame) = [Disease_Category |-> disease, Sex_Category |-> sex]
          THEN 1 ELSE 0) + Tally(Tail(frame), disease, sex)

\* 2 x both-sex trials + female-only + male-only
TotalOf(disease) ==
    2 * Tally(df_clean, disease, "Both Sexes")
    + Tally(df_clean, disease, "Female Only") + Tally(df_clean, disease, "Male Only")

\* both-sex trials + female-only
ObservedOf(disease) ==
    Tally(df_clean, disease, "Both Sexes") + Tally(df_clean, disease, "Female Only")

\* C17: for every disease category analysed, the analysis uses total =
\* 2 x both-sex trials + female-only + male-only, expected female = 0.508 x
\* total (kept in thousandths) and observed female = both-sex + female-only;
\* the observed pair (observed, total - observed) has two non-negative
\* entries that sum to total; the trials of Unknown sex count in total_trials
\* and not in total.
C17_EquityCounts ==
    \A d \in DOMAIN results :
        /\ results[d].chi2_table[1] = <<ObservedOf(d), TotalOf(d) - ObservedOf(d)>>
        /\ results[d].chi2_table[1][1] >= 0
        /\ results[d].chi2_table[1][2] >= 0
        /\ results[d].chi2_table[1][1] + results[d].chi2_table[1][2] = TotalOf(d)
        /\ results[d].chi2_table[2][1] = 508 * TotalOf(d)
        /\ results[d].chi2_table[2][1] + results[d].chi2_table[2][2] = 1000 * TotalOf(d)
        /\ results[d].potential_female_ratio = <<ObservedOf(d), TotalOf(d)>>
        /\ results[d].total_trials = Tally(df_clean, d, "Both Sexes")
                                       + Tally(df_clean, d, "Female Only")
                                       + Tally(df_clean, d, "Male Only")
                                       + Tally(df_clean, d, "Unknown")

\* C17: a category with a both-sex trial, a male-only trial and a trial of
\* Unknown sex has been analysed
C17_Witness ==
    /\ "Cancer" \in DOMAIN results
    /\ results["Cancer"].total_trials = 3
    /\ results["Cancer"].male_only_trials = 1
    /\ results["Cancer"].potential_female_ratio = <<1, 3>>


\* the runs whose clean_data has returned
Cleaned == { k \in Runs : pc_clean[k] # "clean_data" }

\* C25: every row of the result of clean_data is a row of the input whose
\* Country and whose Gender Inequality Index were both present, and no row
\* of the input with a missing Country or a missing index is kept.
C25_RowsWithCountryAndIndexOnly ==
    \A k \in Cleaned :
        { frames[k][i].index : i \in 1..Len(frames[k]) }
            = { i \in 1..Len(csv[k]) : csv[k][i].Country # NaN /\ csv[k][i].GII # NaN }

\* ---------------------------------------------------------------------
\* standardize_phase

\* the two ways of writing phase n
PhaseNames ==
    << {<<"P","H","A","S","E"," ","1">>, <<"P","H","A","S","E"," ","I">>}, {<<"P","H","A","S","E"," ","2">>, <<"P","H","A","S","E"," ","I","I">>},
       {<<"P","H","A","S","E"," ","3">>, <<"P","H","A","S","E"," ","I","I","I">>}, {<<"P","H","A","S","E"," ","4">>, <<"P","H","A","S","E"," ","I","V">>} >>

PhaseLabels == << "Phase 1", "Phase 2", "Phase 3", "Phase 4" >>

\* C21: standardize_phase returns 'Unknown' for a missing value and for
\* 'Unknown', 'Phase N' for a text that is, whatever its case, the word
\* PHASE and the number N in 1..4 as an Arabic or a Roman numeral, 'Early
\* Phase' for a text that begins with EARLY, and 'Not Applicable' for NOT
\* APPLICABLE.
C21_PhaseByNumeral ==
    standardized_phase # Unset =>
        /\ (phase_text = NaN \/ phase_text = <<"U","n","k","n","o","w","n">>) => standardized_phase = "Unknown"
        /\ phase_text # NaN =>
              /\ \A n \in 1..4 :
                    upper(phase_text) \in PhaseNames[n] => standardized_phase = PhaseLabels[n]
              /\ StartsAt(upper(phase_text), 1, <<"E","A","R","L","Y">>) => standardized_phase = "Early Phase"
              /\ upper(phase_text) = <<"N","O","T"," ","A","P","P","L","I","C","A","B","L","E">> => standardized_phase = "Not Applicable"


\* ---------------------------------------------------------------------
\* create_jama_forms.py: main

LastNames == { <<"R","e","s","e","a","r","c","h","e","r">>, <<"S","c","i","e","n","t","i","s","t">>, <<"A","n","a","l","y","s","t">> }

\* the first record of the log that reports a form created
FirstCreated ==
    IF \E i \in 1..Len(forms_log) :
          forms_log[i].msg = "Author Contribution Form created for"
    THEN CHOOSE i \in 1..Len(forms_log) :
            /\ forms_log[i].msg = "Author Contribution Form created for"
            /\ \A j \in 1..(i - 1) : forms_log[j].msg # "Author Contribution Form created for"
    ELSE Len(forms_log) + 1

\* C23: when main has returned, the directory holds one contribution form
\* and one disclosure form per author and the copyright agreement, all
\* written by this run, and nothing else, and every .docx file the
\* directory held before was removed before the first form was created; a
\* run that has ended without returning has raised, its last record being
\* the error of the outer except clause.
C23_FormsAfterMain ==
    /\ pc_forms = "returned" =>
          /\ DOMAIN forms_dir
                = { <<"a","u","t","h","o","r","_","c","o","n","t","r","i","b","u","t","i","o","n","_">> \o n \o <<".","d","o","c","x">> : n \in LastNames }
                  \cup { <<"i","c","m","j","e","_","d","i","s","c","l","o","s","u","r","e","_">> \o n \o <<".","d","o","c","x">> : n \in LastNames }
                  \cup { <<"c","o","p","y","r","i","g","h","t","_","t","r","a","n","s","f","e","r","_","a","g","r","e","e","m","e","n","t",".","d","o","c","x">> }
          /\ Cardinality(DOMAIN forms_dir) = 2 * Len(authors) + 1
          /\ \A f \in DOMAIN forms_dir : forms_dir[f] = "new"
          /\ \A f \in DOMAIN dir_before :
                endswith(f, <<".","d","o","c","x">>) =>
                    \E i \in 1..(FirstCreated - 1) :
                        forms_log[i] = FormRecord("INFO", "Removed existing file", f)
    /\ (pc_forms # "not run" /\ ~ENABLED NextForms) =>
          /\ pc_forms \in {"returned", "raised"}
          /\ pc_forms = "raised" =>
                forms_log[Len(forms_log)]
                    = FormRecord("ERROR", "Error in JAMA forms creation process", <<>>)
    /\ pc_forms = "raised" <=>
          (forms_log # <<>> /\ forms_log[Len(forms_log)].level = "ERROR")

\* C23: main has returned in a directory that held a form of an earlier run
\* and another document
C23_Witness ==
    /\ pc_forms = "returned"
    /\ DOMAIN dir_before = { <<"a","u","t","h","o","r","_","c","o","n","t","r","i","b","u","t","i","o","n","_","R","e","s","e","a","r","c","h","e","r",".","d","o","c","x">>, <<"o","l","d",".","d","o","c","x">> }
    /\ Cardinality(DOMAIN forms_dir) = 7
    /\ forms_dir[<<"a","u","t","h","o","r","_","c","o","n","t","r","i","b","u","t","i","o","n","_","R","e","s","e","a","r","c","h","e","r",".","d","o","c","x">>] = "new"
    /\ <<"o","l","d",".","d","o","c","x">> \notin DOMAIN forms_dir


\* ---------------------------------------------------------------------
\* create_jama_tables.py: parse_markdown_table

\* the pieces without a blank piece before the first pipe and without a
\* blank piece after the last pipe
InteriorPieces(pieces) ==
    SubSeq(pieces,
           IF strip(pieces[1]) = <<>> THEN 2 ELSE 1,
           IF strip(pieces[Len(pieces)]) = <<>> THEN Len(pieces) - 1 ELSE Len(pieces))

\* one cell per column of the line: the text between two pipes, trimmed and
\* without its bold markers
ColumnsOf(line) ==
    [ i \in 1..Len(InteriorPieces(Pieces(line, 1, <<"|">>))) |->
        SubEmphasis(strip(InteriorPieces(Pieces(line, 1, <<"|">>))[i]), <<"*","*">>, 1) ]

IsTableLine(line) ==
    /\ strip(line) # <<>>
    /\ strip(line)[1] = "|"
    /\ strip(line)[Len(strip(line))] = "|"
    /\ Len(strip(line)) >= 2
    /\ \E i \in 1..Len(line) : line[i] \notin Whitespace \cup {"-", "|"}

RECURSIVE ExpectedRows(_)
ExpectedRows(lines) ==
    IF lines = <<>> THEN <<>>
    ELSE (IF IsTableLine(Head(lines)) THEN <<ColumnsOf(Head(lines))>> ELSE <<>>)
         \o ExpectedRows(Tail(lines))

\* C24: parse_markdown_table returns one row per pipe-delimited line that is
\* no separator row, and each row holds one cell per column of its line:
\* the piece before the first pipe and the piece after the last pipe are
\* dropped, an empty cell between two pipes stays in its place.
C24_RowsKeepTheirColumns ==
    table_data # <<>> =>
        table_data[1].rows = ExpectedRows(Pieces(strip(markdown_content), 1, <<"\n">>))

====
